---- MODULE Spec2Model ----
(***************************************************************************)
(* Response-normalisation layer of the video-analysis harness:            *)
(*   raw model reply (text) --extractor--> JSON-like value                 *)
(*                         --coercer-->    AnalysisResult | failure        *)
(* Strings are sequences of one-character strings, so that trimming,       *)
(* fence stripping, JSON decoding and time formatting are computed         *)
(* character by character as the Python code computes them.                *)
(***************************************************************************)
EXTENDS Integers, Sequences, FiniteSets, TLC

VARIABLES
    text,      \* the raw reply handed to the extractor (response.text or "")
    payload,   \* what the extractor returned (parsed value or error envelope)
    result,    \* outcome of AnalysisResult.model_validate(payload)
    pc,        \* "start" -> "done"
    call,      \* which entry point ran
    seconds,   \* argument of a direct _seconds_to_time_string call
    timeStr    \* its return value

vars == <<text, payload, result, pc, call, seconds, timeStr>>

(***************************************************************************)
(* Bounds of the model.                                                    *)
(***************************************************************************)
MaxParts == 3        \* fragments concatenated into an arbitrary reply
MaxSeconds == 7350   \* largest number of seconds converted
MaxSegments == 2     \* longest list of sample segments
MaxContentParts == 2 \* longest list of parts in a message content

(***************************************************************************)
(* Python str primitives.                                                  *)
(***************************************************************************)
\* characters str.strip()/str.rstrip() remove (str.isspace)
PyWhitespace == {" ", "\t", "\n", "\r", "\f"}

\* characters the json decoder skips between tokens (json.decoder.WHITESPACE)
JsonWhitespace == {" ", "\t", "\n", "\r"}

\* s[i:] with a 0-based Python index i
SliceFrom(s, i) == SubSeq(s, i + 1, Len(s))

\* s[:-n]
DropLast(s, n) == SubSeq(s, 1, Len(s) - n)

RECURSIVE LStrip(_)
LStrip(s) ==
    IF s # <<>> /\ Head(s) \in PyWhitespace THEN LStrip(Tail(s)) ELSE s

RECURSIVE RStrip(_)
RStrip(s) ==
    IF s # <<>> /\ s[Len(s)] \in PyWhitespace THEN RStrip(DropLast(s, 1)) ELSE s

Strip(s) == RStrip(LStrip(s))

\* U+0060, the grave accent: the one character a TLA+ string literal cannot hold
Backtick == "<grave>"

\* U+0008, which has no escape in a TLA+ string literal either
Backspace == "<bs>"

Fence == <<Backtick, Backtick, Backtick>>

StartsWith(s, p) == Len(s) >= Len(p) /\ SubSeq(s, 1, Len(p)) = p

EndsWith(s, p) == Len(s) >= Len(p) /\ SubSeq(s, Len(s) - Len(p) + 1, Len(s)) = p

\* str.find(c): 0-based index of the first occurrence of character c, or -1
Find(s, c) ==
    IF \E i \in 1..Len(s) : s[i] = c
    THEN (CHOOSE i \in 1..Len(s) : s[i] = c /\ \A j \in 1..(i - 1) : s[j] # c) - 1
    ELSE -1

(***************************************************************************)
(* JSON-like values.                                                       *)
(***************************************************************************)
JNull == [t |-> "null"]
JBool(b) == [t |-> "bool", b |-> b]
JInt(n) == [t |-> "int", n |-> n]
\* a float is (-1)^neg * mant * 10^(-scale), scale >= 0
JFloat(neg, mant, scale) == [t |-> "float", neg |-> neg, mant |-> mant, scale |-> scale]
JNaN == [t |-> "nan"]
JInf(neg) == [t |-> "inf", neg |-> neg]
JStr(s) == [t |-> "str", s |-> s]
JArr(items) == [t |-> "arr", items |-> items]
\* an object is a function from its keys (strings) to its values
JObj(f) == [t |-> "obj", f |-> f]

EmptyMap == [k \in {} |-> JNull]

Has(v, k) == v.t = "obj" /\ k \in DOMAIN v.f

(***************************************************************************)
(* json.loads (json.decoder / json.scanner of the standard library), as    *)
(* called with its defaults: strict string scanning, and the NaN,          *)
(* Infinity and -Infinity literals accepted.  With allowConst = FALSE the  *)
(* same scanner recognises exactly the RFC 8259 grammar.                   *)
(* A scan returns [ok, val, end]: end is the 1-based index after the value.*)
(***************************************************************************)
NoScan == [ok |-> FALSE]
Scanned(v, e) == [ok |-> TRUE, val |-> v, end |-> e]

Digits == <<"0", "1", "2", "3", "4", "5", "6", "7", "8", "9">>
IsDigit(c) == \E d \in 1..10 : Digits[d] = c
DigitVal(c) == (CHOOSE d \in 1..10 : Digits[d] = c) - 1

CharAt(s, i) == IF i >= 1 /\ i <= Len(s) THEN s[i] ELSE "<eof>"

\* s[i:i+len(w)] == w
LiteralAt(s, i, w) == i + Len(w) - 1 <= Len(s) /\ SubSeq(s, i, i + Len(w) - 1) = w

RECURSIVE SkipWs(_, _)
SkipWs(s, i) == IF CharAt(s, i) \in JsonWhitespace THEN SkipWs(s, i + 1) ELSE i

\* index after the run of digits starting at i
RECURSIVE DigitsEnd(_, _)
DigitsEnd(s, i) == IF IsDigit(CharAt(s, i)) THEN DigitsEnd(s, i + 1) ELSE i

\* value of the digits s[i..j-1] read as a decimal numeral
RECURSIVE DecValue(_, _, _)
DecValue(s, i, j) == IF i >= j THEN 0 ELSE DecValue(s, i, j - 1) * 10 + DigitVal(s[j - 1])

RECURSIVE Pow10(_)
Pow10(n) == IF n <= 0 THEN 1 ELSE 10 * Pow10(n - 1)

\* float(integer + frac + exp) as an exact decimal in lowest terms, so that
\* equal floats are equal values (1.50 = 1.5, 1e2 = 100.0)
RECURSIVE MakeFloat(_, _, _)
MakeFloat(neg, mant, scale) ==
    IF scale < 0 THEN JFloat(neg, mant * Pow10(-scale), 0)
    ELSE IF scale > 0 /\ mant % 10 = 0 THEN MakeFloat(neg, mant \div 10, scale - 1)
    ELSE JFloat(neg, mant, scale)

\* NUMBER_RE: (-?(?:0|[1-9]\d*))(\.\d+)?([eE][-+]?\d+)?
\* i0 is the index of the first digit; i1, i2, i3 are the indexes after the
\* integer part, the fraction and the exponent (equal when a part is missing)
IntegerEnd(s, i0) == IF CharAt(s, i0) = "0" THEN i0 + 1 ELSE DigitsEnd(s, i0)

FracEnd(s, i1) ==
    IF CharAt(s, i1) = "." /\ IsDigit(CharAt(s, i1 + 1)) THEN DigitsEnd(s, i1 + 1) ELSE i1

\* index of the first digit of an exponent that starts at i2
ExpDigits(s, i2) == IF CharAt(s, i2 + 1) \in {"-", "+"} THEN i2 + 2 ELSE i2 + 1

ExpEnd(s, i2) ==
    IF CharAt(s, i2) \in {"e", "E"} /\ IsDigit(CharAt(s, ExpDigits(s, i2)))
    THEN DigitsEnd(s, ExpDigits(s, i2))
    ELSE i2

\* int(integer) when there is neither fraction nor exponent, else float(...)
NumberValue(s, neg, i0, i1, i2, i3) ==
    IF i1 = i0 THEN NoScan
    ELSE IF i3 = i1 THEN Scanned(JInt((IF neg THEN -1 ELSE 1) * DecValue(s, i0, i1)), i1)
    ELSE Scanned(MakeFloat(neg,
                           DecValue(s, i0, i1) * Pow10(i2 - i1 - 1) + DecValue(s, i1 + 1, i2),
                           (IF i2 > i1 THEN i2 - i1 - 1 ELSE 0)
                             - (IF i3 = i2 THEN 0
                                ELSE (IF CharAt(s, i2 + 1) = "-" THEN -1 ELSE 1)
                                       * DecValue(s, ExpDigits(s, i2), i3))),
                 i3)

ScanNumberFrac(s, neg, i0, i1, i2) == NumberValue(s, neg, i0, i1, i2, ExpEnd(s, i2))
ScanNumberInt(s, neg, i0, i1) == ScanNumberFrac(s, neg, i0, i1, FracEnd(s, i1))
ScanNumberFrom(s, neg, i0) == ScanNumberInt(s, neg, i0, IntegerEnd(s, i0))

ScanNumber(s, i) ==
    ScanNumberFrom(s, CharAt(s, i) = "-", IF CharAt(s, i) = "-" THEN i + 1 ELSE i)

\* json.decoder.BACKSLASH, without the \uXXXX form
Escapes == {"\"", "\\", "/", "b", "f", "n", "r", "t"}
Unescape(c) ==
    CASE c = "b" -> Backspace
      [] c = "f" -> "\f"
      [] c = "n" -> "\n"
      [] c = "r" -> "\r"
      [] c = "t" -> "\t"
      [] OTHER -> c

\* characters below U+0020, which a strict scan rejects inside a string
ControlChars == {"\t", "\n", "\r", "\f", Backspace}

\* py_scanstring(s, i, strict=True): i is the index after the opening quote.
\* No reply of the model holds a backslash followed by u, so the \uXXXX
\* escape is left out.
RECURSIVE ScanString(_, _, _)
ScanString(s, i, acc) ==
    LET c == CharAt(s, i) IN
    IF i > Len(s) THEN NoScan
    ELSE IF c = "\"" THEN Scanned(JStr(acc), i + 1)
    ELSE IF c = "\\" THEN
        IF CharAt(s, i + 1) \in Escapes /\ i + 1 <= Len(s)
        THEN ScanString(s, i + 2, Append(acc, Unescape(s[i + 1])))
        ELSE NoScan
    ELSE IF c \in ControlChars THEN NoScan
    ELSE ScanString(s, i + 1, Append(acc, c))

Lit_null == <<"n", "u", "l", "l">>
Lit_true == <<"t", "r", "u", "e">>
Lit_false == <<"f", "a", "l", "s", "e">>
Lit_NaN == <<"N", "a", "N">>
Lit_Infinity == <<"I", "n", "f", "i", "n", "i", "t", "y">>
Lit_NegInfinity == <<"-">> \o Lit_Infinity

RECURSIVE ScanOnce(_, _, _)
RECURSIVE ObjectLoop(_, _, _, _)
RECURSIVE ArrayLoop(_, _, _, _)

\* JSONObject's while loop, one step per definition.  After a pair: "}" ends
\* the object, "," must be followed by the quote of the next key.
ObjectNextKey(s, acc, allowConst, k0) ==
    IF CharAt(s, k0) # "\"" THEN NoScan ELSE ObjectLoop(s, k0 + 1, acc, allowConst)

ObjectNext(s, acc, allowConst, d0) ==
    IF CharAt(s, d0) = "}" THEN Scanned(JObj(acc), d0 + 1)
    ELSE IF CharAt(s, d0) # "," THEN NoScan
    ELSE ObjectNextKey(s, acc, allowConst, SkipWs(s, d0 + 1))

\* pairs[key] = value: a repeated key keeps its last value
ObjectValue(s, acc, allowConst, key, val) ==
    IF ~val.ok THEN NoScan
    ELSE ObjectNext(s, (key :> val.val) @@ acc, allowConst, SkipWs(s, val.end))

ObjectColon(s, acc, allowConst, key, c1) ==
    IF CharAt(s, c1) # ":" THEN NoScan
    ELSE ObjectValue(s, acc, allowConst, key, ScanOnce(s, SkipWs(s, c1 + 1), allowConst))

ObjectKey(s, acc, allowConst, key) ==
    IF ~key.ok THEN NoScan ELSE ObjectColon(s, acc, allowConst, key.val.s, SkipWs(s, key.end))

\* i is the index after the opening quote of a key
ObjectLoop(s, i, acc, allowConst) == ObjectKey(s, acc, allowConst, ScanString(s, i, <<>>))

\* JSONObject(s, i): i is the index after the opening brace
JSONObjectAt(s, j, allowConst) ==
    IF CharAt(s, j) = "}" THEN Scanned(JObj(EmptyMap), j + 1)
    ELSE IF CharAt(s, j) # "\"" THEN NoScan
    ELSE ObjectLoop(s, j + 1, EmptyMap, allowConst)

JSONObject(s, i, allowConst) == JSONObjectAt(s, SkipWs(s, i), allowConst)

\* JSONArray's while loop: after a value, "]" ends the array and "," must be
\* followed by the next value
ArrayNext(s, acc, allowConst, d0) ==
    IF CharAt(s, d0) = "]" THEN Scanned(JArr(acc), d0 + 1)
    ELSE IF CharAt(s, d0) # "," THEN NoScan
    ELSE ArrayLoop(s, SkipWs(s, d0 + 1), acc, allowConst)

ArrayValue(s, acc, allowConst, val) ==
    IF ~val.ok THEN NoScan
    ELSE ArrayNext(s, Append(acc, val.val), allowConst, SkipWs(s, val.end))

\* i is the index of the next value
ArrayLoop(s, i, acc, allowConst) == ArrayValue(s, acc, allowConst, ScanOnce(s, i, allowConst))

\* JSONArray(s, i): i is the index after the opening bracket
JSONArrayAt(s, j, allowConst) ==
    IF CharAt(s, j) = "]" THEN Scanned(JArr(<<>>), j + 1)
    ELSE ArrayLoop(s, j, <<>>, allowConst)

JSONArray(s, i, allowConst) == JSONArrayAt(s, SkipWs(s, i), allowConst)

\* the tail of _scan_once: a number, else one of the three constants
NumberOrConstant(s, i, allowConst, num) ==
    IF num.ok THEN num
    ELSE IF allowConst /\ LiteralAt(s, i, Lit_NaN) THEN Scanned(JNaN, i + 3)
    ELSE IF allowConst /\ LiteralAt(s, i, Lit_Infinity) THEN Scanned(JInf(FALSE), i + 8)
    ELSE IF allowConst /\ LiteralAt(s, i, Lit_NegInfinity) THEN Scanned(JInf(TRUE), i + 9)
    ELSE NoScan

\* json.scanner.py_make_scanner._scan_once
ScanOnce(s, i, allowConst) ==
    IF i > Len(s) THEN NoScan
    ELSE IF s[i] = "\"" THEN ScanString(s, i + 1, <<>>)
    ELSE IF s[i] = "{" THEN JSONObject(s, i + 1, allowConst)
    ELSE IF s[i] = "[" THEN JSONArray(s, i + 1, allowConst)
    ELSE IF LiteralAt(s, i, Lit_null) THEN Scanned(JNull, i + 4)
    ELSE IF LiteralAt(s, i, Lit_true) THEN Scanned(JBool(TRUE), i + 4)
    ELSE IF LiteralAt(s, i, Lit_false) THEN Scanned(JBool(FALSE), i + 5)
    ELSE NumberOrConstant(s, i, allowConst, ScanNumber(s, i))

\* JSONDecoder.decode: nothing but whitespace may follow the value
\* ("Extra data" otherwise)
WholeText(s, r) == IF r.ok /\ SkipWs(s, r.end) = Len(s) + 1 THEN r ELSE NoScan

\* JSONDecoder.decode: raw_decode after the leading whitespace
Decode(s, allowConst) == WholeText(s, ScanOnce(s, SkipWs(s, 1), allowConst))

\* json.loads(s) with the defaults; ok = FALSE stands for JSONDecodeError
json_loads(s) == Decode(s, TRUE)

\* s is a JSON text in the sense of RFC 8259
IsValidJSON(s) == Decode(s, FALSE).ok

(***************************************************************************)
(* The raw-text extractor, once per provider path.                         *)
(***************************************************************************)
K_error == <<"e", "r", "r", "o", "r">>
K_raw == <<"r", "a", "w">>
InvalidJsonOutput ==
    <<"I", "n", "v", "a", "l", "i", "d", " ", "J", "S", "O", "N", " ",
      "o", "u", "t", "p", "u", "t">>

\* {"error": "Invalid JSON output", "raw": raw}
ErrorEnvelope(raw) == JObj((K_error :> JStr(InvalidJsonOutput)) @@ (K_raw :> JStr(raw)))

\* _parse_json_safe without lines 47-48: a closing fence is left in place
StripFences_KeepsClosingFence(txt) ==
    LET t0 == Strip(txt)
        first_fence_end == Find(t0, "\n")
    IN  IF StartsWith(t0, Fence) /\ first_fence_end # -1
        THEN SliceFrom(t0, first_fence_end + 1)
        ELSE t0

\* the text _parse_json_safe hands to json.loads
StripFences(txt) ==
    LET t0 == Strip(txt)
        first_fence_end == Find(t0, "\n")
        t1 == IF first_fence_end # -1 THEN SliceFrom(t0, first_fence_end + 1) ELSE t0
    IN  IF StartsWith(t0, Fence)
        THEN IF EndsWith(RStrip(t1), Fence) THEN DropLast(RStrip(t1), 3) ELSE t1
        ELSE t0

\* try: return json.loads(text) / except JSONDecodeError: the envelope
LoadsOrEnvelope(cleaned, parsed) == IF parsed.ok THEN parsed.val ELSE ErrorEnvelope(cleaned)

TryLoads(cleaned) == LoadsOrEnvelope(cleaned, json_loads(cleaned))

_parse_json_safe(txt) == TryLoads(StripFences(txt))

\* the text parse_json_from_model_text hands to json.loads
\* a cleanup that removes a trailing fence whether or not the text opens with one
Cleaned_AnyTrailingFence(txt) ==
    LET c0 == Strip(txt)
        first_fence_end == Find(c0, "\n")
        c1 == IF StartsWith(c0, Fence) /\ first_fence_end # -1
              THEN SliceFrom(c0, first_fence_end + 1)
              ELSE c0
    IN  IF EndsWith(RStrip(c1), Fence) THEN DropLast(RStrip(c1), 3) ELSE c1

Cleaned(txt) ==
    LET c0 == Strip(txt)
        first_fence_end == Find(c0, "\n")
        c1 == IF StartsWith(c0, Fence) /\ first_fence_end # -1
              THEN SliceFrom(c0, first_fence_end + 1)
              ELSE c0
        c2 == IF StartsWith(c0, Fence) /\ EndsWith(RStrip(c1), Fence)
              THEN DropLast(RStrip(c1), 3)
              ELSE c1
    IN  c2

\* try: return json.loads(cleaned) / except JSONDecodeError: the envelope
\* an envelope that names the failure differently from _parse_json_safe
CleanedOrEnvelope_OtherMarker(cleaned, parsed) ==
    IF parsed.ok THEN parsed.val
    ELSE JObj((K_error :> JStr(<<"J", "S", "O", "N", "D", "e", "c", "o", "d", "e",
                                  "E", "r", "r", "o", "r">>))
                @@ (K_raw :> JStr(cleaned)))

CleanedOrEnvelope(cleaned, parsed) == IF parsed.ok THEN parsed.val ELSE ErrorEnvelope(cleaned)

LoadsCleaned(cleaned) == CleanedOrEnvelope(cleaned, json_loads(cleaned))

parse_json_from_model_text(txt) == LoadsCleaned(Cleaned(txt))

(***************************************************************************)
(* The schema of video_analysis_models.py.  A field type is                *)
(*   kind  the annotated type: "str", "int", "float", "bool", "list_str",  *)
(*         "model" or "list_model" (sub names the nested model);           *)
(*   opt   Optional[...]: None is accepted;                                *)
(*   req   no default: the key must be present;                            *)
(*   dflt  the default stored when the key is absent.                      *)
(***************************************************************************)
K_resolution == <<"r", "e", "s", "o", "l", "u", "t", "i", "o", "n">>
K_fps == <<"f", "p", "s">>
K_audio_channels == <<"a", "u", "d", "i", "o", "_", "c", "h", "a", "n", "n", "e", "l", "s">>
K_video_id == <<"v", "i", "d", "e", "o", "_", "i", "d">>
K_filename == <<"f", "i", "l", "e", "n", "a", "m", "e">>
K_processed_at == <<"p", "r", "o", "c", "e", "s", "s", "e", "d", "_", "a", "t">>
K_duration_seconds == <<"d", "u", "r", "a", "t", "i", "o", "n", "_", "s", "e", "c", "o", "n", "d", "s">>
K_technical_specs == <<"t", "e", "c", "h", "n", "i", "c", "a", "l", "_", "s", "p", "e", "c", "s">>
K_title_detected == <<"t", "i", "t", "l", "e", "_", "d", "e", "t", "e", "c", "t", "e", "d">>
K_topics == <<"t", "o", "p", "i", "c", "s">>
K_summary == <<"s", "u", "m", "m", "a", "r", "y">>
K_overall_sentiment == <<"o", "v", "e", "r", "a", "l", "l", "_", "s", "e", "n", "t", "i", "m", "e", "n", "t">>
K_dominant_language == <<"d", "o", "m", "i", "n", "a", "n", "t", "_", "l", "a", "n", "g", "u", "a", "g", "e">>
K_start == <<"s", "t", "a", "r", "t">>
K_end == <<"e", "n", "d">>
K_type == <<"t", "y", "p", "e">>
K_topic == <<"t", "o", "p", "i", "c">>
K_label == <<"l", "a", "b", "e", "l">>
K_attributes == <<"a", "t", "t", "r", "i", "b", "u", "t", "e", "s">>
K_action == <<"a", "c", "t", "i", "o", "n">>
K_emotion == <<"e", "m", "o", "t", "i", "o", "n">>
K_shot_type == <<"s", "h", "o", "t", "_", "t", "y", "p", "e">>
K_camera_movement == <<"c", "a", "m", "e", "r", "a", "_", "m", "o", "v", "e", "m", "e", "n", "t">>
K_main_subjects == <<"m", "a", "i", "n", "_", "s", "u", "b", "j", "e", "c", "t", "s">>
K_environment == <<"e", "n", "v", "i", "r", "o", "n", "m", "e", "n", "t">>
K_transcript == <<"t", "r", "a", "n", "s", "c", "r", "i", "p", "t">>
K_speaker_id == <<"s", "p", "e", "a", "k", "e", "r", "_", "i", "d">>
K_bg_music == <<"b", "g", "_", "m", "u", "s", "i", "c">>
K_voice_intonation == <<"v", "o", "i", "c", "e", "_", "i", "n", "t", "o", "n", "a", "t", "i", "o", "n">>
K_visible_text == <<"v", "i", "s", "i", "b", "l", "e", "_", "t", "e", "x", "t">>
K_programming_language == <<"p", "r", "o", "g", "r", "a", "m", "m", "i", "n", "g", "_", "l", "a", "n", "g", "u", "a", "g", "e">>
K_is_hook == <<"i", "s", "_", "h", "o", "o", "k">>
K_tactic == <<"t", "a", "c", "t", "i", "c">>
K_psychological_trigger == <<"p", "s", "y", "c", "h", "o", "l", "o", "g", "i", "c", "a", "l", "_", "t", "r", "i", "g", "g", "e", "r">>
K_abstract_concept == <<"a", "b", "s", "t", "r", "a", "c", "t", "_", "c", "o", "n", "c", "e", "p", "t">>
K_generative_prompt == <<"g", "e", "n", "e", "r", "a", "t", "i", "v", "e", "_", "p", "r", "o", "m", "p", "t">>
K_virality_score == <<"v", "i", "r", "a", "l", "i", "t", "y", "_", "s", "c", "o", "r", "e">>
K_hook_strategy == <<"h", "o", "o", "k", "_", "s", "t", "r", "a", "t", "e", "g", "y">>
K_target_audience == <<"t", "a", "r", "g", "e", "t", "_", "a", "u", "d", "i", "e", "n", "c", "e">>
K_share_trigger == <<"s", "h", "a", "r", "e", "_", "t", "r", "i", "g", "g", "e", "r">>
K_segment_id == <<"s", "e", "g", "m", "e", "n", "t", "_", "i", "d">>
K_time_range == <<"t", "i", "m", "e", "_", "r", "a", "n", "g", "e">>
K_classification == <<"c", "l", "a", "s", "s", "i", "f", "i", "c", "a", "t", "i", "o", "n">>
K_visual_analysis == <<"v", "i", "s", "u", "a", "l", "_", "a", "n", "a", "l", "y", "s", "i", "s">>
K_audio_analysis == <<"a", "u", "d", "i", "o", "_", "a", "n", "a", "l", "y", "s", "i", "s">>
K_text_extraction_ocr == <<"t", "e", "x", "t", "_", "e", "x", "t", "r", "a", "c", "t", "i", "o", "n", "_", "o", "c", "r">>
K_engagement_mechanics == <<"e", "n", "g", "a", "g", "e", "m", "e", "n", "t", "_", "m", "e", "c", "h", "a", "n", "i", "c", "s">>
K_ir_reconstruction == <<"i", "r", "_", "r", "e", "c", "o", "n", "s", "t", "r", "u", "c", "t", "i", "o", "n">>
K_timestamp == <<"t", "i", "m", "e", "s", "t", "a", "m", "p">>
K_actions_detected == <<"a", "c", "t", "i", "o", "n", "s", "_", "d", "e", "t", "e", "c", "t", "e", "d">>
K_key_objects == <<"k", "e", "y", "_", "o", "b", "j", "e", "c", "t", "s">>
K_referenced_links == <<"r", "e", "f", "e", "r", "e", "n", "c", "e", "d", "_", "l", "i", "n", "k", "s">>
K_file_info == <<"f", "i", "l", "e", "_", "i", "n", "f", "o">>
K_global_analysis == <<"g", "l", "o", "b", "a", "l", "_", "a", "n", "a", "l", "y", "s", "i", "s">>
K_global_virality == <<"g", "l", "o", "b", "a", "l", "_", "v", "i", "r", "a", "l", "i", "t", "y">>
K_timeline_segments == <<"t", "i", "m", "e", "l", "i", "n", "e", "_", "s", "e", "g", "m", "e", "n", "t", "s">>
K_extracted_entities == <<"e", "x", "t", "r", "a", "c", "t", "e", "d", "_", "e", "n", "t", "i", "t", "i", "e", "s">>

OptStr == [kind |-> "str", sub |-> "", opt |-> TRUE, req |-> FALSE, dflt |-> JNull]
ReqStr == [kind |-> "str", sub |-> "", opt |-> FALSE, req |-> TRUE, dflt |-> JNull]
OptInt == [kind |-> "int", sub |-> "", opt |-> TRUE, req |-> FALSE, dflt |-> JNull]
OptFloat == [kind |-> "float", sub |-> "", opt |-> TRUE, req |-> FALSE, dflt |-> JNull]
BoolFalse == [kind |-> "bool", sub |-> "", opt |-> FALSE, req |-> FALSE, dflt |-> JBool(FALSE)]
ListStr == [kind |-> "list_str", sub |-> "", opt |-> FALSE, req |-> FALSE, dflt |-> JArr(<<>>)]
OptModel(m) == [kind |-> "model", sub |-> m, opt |-> TRUE, req |-> FALSE, dflt |-> JNull]
ListModel(m) == [kind |-> "list_model", sub |-> m, opt |-> FALSE, req |-> FALSE, dflt |-> JArr(<<>>)]

F(name, type) == [name |-> name, type |-> type]

TechnicalSpecs ==
    << F(K_resolution, OptStr),
       F(K_fps, OptFloat),
       F(K_audio_channels, OptInt) >>

FileInfo ==
    << F(K_video_id, OptStr),
       F(K_filename, OptStr),
       F(K_processed_at, OptStr),
       F(K_duration_seconds, OptFloat),
       F(K_technical_specs, OptModel("TechnicalSpecs")) >>

GlobalAnalysis ==
    << F(K_title_detected, OptStr),
       F(K_topics, ListStr),
       F(K_summary, OptStr),
       F(K_overall_sentiment, OptStr),
       F(K_dominant_language, OptStr) >>

TimeRange ==
    << F(K_start, ReqStr),
       F(K_end, ReqStr) >>

Classification ==
    << F(K_type, OptStr),
       F(K_topic, OptStr) >>

VisualSubject ==
    << F(K_label, OptStr),
       F(K_attributes, ListStr),
       F(K_action, OptStr),
       F(K_emotion, OptStr) >>

VisualAnalysis ==
    << F(K_shot_type, OptStr),
       F(K_camera_movement, OptStr),
       F(K_main_subjects, ListModel("VisualSubject")),
       F(K_environment, OptStr) >>

AudioAnalysis ==
    << F(K_transcript, OptStr),
       F(K_speaker_id, OptStr),
       F(K_bg_music, OptStr),
       F(K_voice_intonation, OptStr) >>

TextExtractionOCR ==
    << F(K_visible_text, ListStr),
       F(K_programming_language, OptStr) >>

EngagementMechanics ==
    << F(K_is_hook, BoolFalse),
       F(K_tactic, OptStr),
       F(K_psychological_trigger, OptStr) >>

IRReconstruction ==
    << F(K_abstract_concept, OptStr),
       F(K_generative_prompt, OptStr) >>

GlobalViralityAnalysis ==
    << F(K_virality_score, OptInt),
       F(K_hook_strategy, OptStr),
       F(K_target_audience, OptStr),
       F(K_share_trigger, OptStr) >>

TimelineSegment ==
    << F(K_segment_id, OptStr),
       F(K_time_range, OptModel("TimeRange")),
       F(K_start, OptStr),
       F(K_end, OptStr),
       F(K_classification, OptModel("Classification")),
       F(K_visual_analysis, OptModel("VisualAnalysis")),
       F(K_audio_analysis, OptModel("AudioAnalysis")),
       F(K_text_extraction_ocr, OptModel("TextExtractionOCR")),
       F(K_engagement_mechanics, OptModel("EngagementMechanics")),
       F(K_ir_reconstruction, OptModel("IRReconstruction")) >>

ExtractedAction ==
    << F(K_action, ReqStr),
       F(K_timestamp, ReqStr) >>

ExtractedEntities ==
    << F(K_actions_detected, ListModel("ExtractedAction")),
       F(K_key_objects, ListStr),
       F(K_referenced_links, ListStr) >>

AnalysisResult ==
    << F(K_file_info, OptModel("FileInfo")),
       F(K_global_analysis, OptModel("GlobalAnalysis")),
       F(K_global_virality, OptModel("GlobalViralityAnalysis")),
       F(K_timeline_segments, ListModel("TimelineSegment")),
       F(K_extracted_entities, OptModel("ExtractedEntities")) >>

ModelNames == {"TechnicalSpecs", "FileInfo", "GlobalAnalysis", "TimeRange", "Classification", "VisualSubject", "VisualAnalysis", "AudioAnalysis", "TextExtractionOCR", "EngagementMechanics", "IRReconstruction", "GlobalViralityAnalysis", "TimelineSegment", "ExtractedAction", "ExtractedEntities", "AnalysisResult"}

Fields(m) ==
    CASE m = "TechnicalSpecs" -> TechnicalSpecs
      [] m = "FileInfo" -> FileInfo
      [] m = "GlobalAnalysis" -> GlobalAnalysis
      [] m = "TimeRange" -> TimeRange
      [] m = "Classification" -> Classification
      [] m = "VisualSubject" -> VisualSubject
      [] m = "VisualAnalysis" -> VisualAnalysis
      [] m = "AudioAnalysis" -> AudioAnalysis
      [] m = "TextExtractionOCR" -> TextExtractionOCR
      [] m = "EngagementMechanics" -> EngagementMechanics
      [] m = "IRReconstruction" -> IRReconstruction
      [] m = "GlobalViralityAnalysis" -> GlobalViralityAnalysis
      [] m = "TimelineSegment" -> TimelineSegment
      [] m = "ExtractedAction" -> ExtractedAction
      [] m = "ExtractedEntities" -> ExtractedEntities
      [] m = "AnalysisResult" -> AnalysisResult

(***************************************************************************)
(* Outcome of validating one value: the validated value, a validation      *)
(* error (collected into pydantic's ValidationError), or an exception that *)
(* pydantic does not catch and that leaves model_validate as it is.        *)
(***************************************************************************)
Ok(v) == [ok |-> TRUE, val |-> v, exc |-> "none"]
Invalid == [ok |-> FALSE, val |-> JNull, exc |-> "none"]
Raised(e) == [ok |-> FALSE, val |-> JNull, exc |-> e]

\* decimal digits of n >= 0
RECURSIVE DecDigits(_)
DecDigits(n) ==
    IF n < 10 THEN <<Digits[n + 1]>> ELSE Append(DecDigits(n \div 10), Digits[(n % 10) + 1])

\* str(n) of an int
IntToStr(n) == IF n < 0 THEN <<"-">> \o DecDigits(-n) ELSE DecDigits(n)

\* f"{n:02d}"
Format02d(n) == IF n >= 0 /\ n < 10 THEN <<"0">> \o DecDigits(n) ELSE IntToStr(n)

\* repr of a float with a short decimal expansion
FloatToStr(v) ==
    LET ip == v.mant \div Pow10(v.scale)
        fr == v.mant % Pow10(v.scale)
        frDigits == IF v.scale = 0 THEN <<"0">>
                    ELSE LET d == DecDigits(fr)
                         IN  [i \in 1..(v.scale - Len(d)) |-> "0"] \o d
    IN  (IF v.neg THEN <<"-">> ELSE <<>>) \o DecDigits(ip) \o <<".">> \o frDigits

\* str(v) as the validators use it.  Lists and objects are never supplied
\* where the validators stringify, and stand for themselves.
PyStr(v) ==
    CASE v.t = "str" -> v.s
      [] v.t = "int" -> IntToStr(v.n)
      [] v.t = "bool" -> IF v.b THEN <<"T", "r", "u", "e">> ELSE <<"F", "a", "l", "s", "e">>
      [] v.t = "float" -> FloatToStr(v)
      [] v.t = "nan" -> <<"n", "a", "n">>
      [] v.t = "inf" -> IF v.neg THEN <<"-", "i", "n", "f">> ELSE <<"i", "n", "f">>
      [] v.t = "null" -> <<"N", "o", "n", "e">>
      [] OTHER -> <<"<repr>">>

\* int(v): truncation toward zero for a float, ValueError for NaN,
\* OverflowError for an infinity, TypeError for None, a list or a dict
PyInt(v) ==
    CASE v.t = "int" -> Ok(v.n)
      [] v.t = "bool" -> Ok(IF v.b THEN 1 ELSE 0)
      [] v.t = "float" -> Ok((IF v.neg THEN -1 ELSE 1) * (v.mant \div Pow10(v.scale)))
      [] v.t = "nan" -> Invalid
      [] v.t = "inf" -> Raised("OverflowError")
      [] OTHER -> Raised("TypeError")

\* the formatting with the minutes not reduced modulo the hour
FormatTime_MinutesNotReduced(total_seconds) ==
    LET hours == total_seconds \div 3600
        minutes == total_seconds \div 60
        secs == total_seconds % 60
    IN  IF hours > 0
        THEN Format02d(hours) \o <<":">> \o Format02d(minutes) \o <<":">> \o Format02d(secs)
        ELSE Format02d(minutes) \o <<":">> \o Format02d(secs)

\* the formatting half of _seconds_to_time_string
FormatTime(total_seconds) ==
    LET hours == total_seconds \div 3600
        minutes == (total_seconds % 3600) \div 60
        secs == total_seconds % 60
    IN  IF hours > 0
        THEN Format02d(hours) \o <<":">> \o Format02d(minutes) \o <<":">> \o Format02d(secs)
        ELSE Format02d(minutes) \o <<":">> \o Format02d(secs)

\* total is the outcome of int(seconds)
TimeStringOf(total) == IF total.ok THEN Ok(JStr(FormatTime(total.val))) ELSE total

_seconds_to_time_string(v) == IF v.t = "str" THEN Ok(v) ELSE TimeStringOf(PyInt(v))

(***************************************************************************)
(* The "before" field validators and the "after" model validator.          *)
(***************************************************************************)
RECURSIVE JoinStrs(_)
\* ", ".join(str(item) for item in items)
JoinStrs(items) ==
    IF items = <<>> THEN <<>>
    ELSE IF Len(items) = 1 THEN PyStr(items[1])
    ELSE PyStr(items[1]) \o <<",", " ">> \o JoinStrs(Tail(items))

\* a flattening that keeps the first item only
_coerce_target_audience_FirstItem(v) ==
    IF v.t = "arr"
    THEN Ok(JStr(IF v.items = <<>> THEN <<>> ELSE PyStr(v.items[1])))
    ELSE Ok(v)

_coerce_target_audience(v) ==
    IF v.t = "arr" THEN Ok(JStr(JoinStrs(v.items))) ELSE Ok(v)

\* an identifier handed on as it was supplied
_coerce_segment_id_Unchanged(v) == Ok(v)

\* an identifier that is marked each time it is coerced
_coerce_segment_id_Marked(v) ==
    IF v.t = "null" THEN Ok(JNull) ELSE Ok(JStr(<<"#">> \o PyStr(v)))

_coerce_segment_id(v) ==
    IF v.t = "null" THEN Ok(JNull) ELSE Ok(JStr(PyStr(v)))

\* a normalisation that wraps the empty list as well
_coerce_text_extraction_ocr_WrapsEmpty(v) ==
    IF v.t = "null" THEN Ok(JNull)
    ELSE IF v.t = "arr" THEN Ok(JObj(K_visible_text :> v))
    ELSE Ok(v)

_coerce_text_extraction_ocr(v) ==
    IF v.t = "null" THEN Ok(JNull)
    ELSE IF v.t = "arr"
         THEN IF Len(v.items) = 0 THEN Ok(JNull) ELSE Ok(JObj(K_visible_text :> v))
         ELSE Ok(v)

\* a conversion that sends a string through int() as well
_convert_time_to_string_ParsesStrings(v) ==
    IF v.t = "null" THEN Ok(JNull)
    ELSE IF v.t = "str"
         THEN IF v.s # <<>> /\ \A i \in DOMAIN v.s : IsDigit(v.s[i])
              THEN Ok(JStr(FormatTime(DecValue(v.s, 1, Len(v.s) + 1))))
              ELSE Invalid
         ELSE _seconds_to_time_string(v)

_convert_time_to_string(v) ==
    IF v.t = "null" THEN Ok(JNull)
    ELSE IF v.t = "str" THEN Ok(v)
    ELSE _seconds_to_time_string(v)

\* TimeRange(start=start, end=end) on two validated strings
NewTimeRange(start, end) == JObj((K_start :> start) @@ (K_end :> end))

\* a synthesis that replaces a nested time_range that was supplied
_coerce_time_range_OverwritesNested(self) ==
    IF self[K_start].t # "null" /\ self[K_end].t # "null"
    THEN [self EXCEPT ![K_time_range] = NewTimeRange(self[K_start], self[K_end])]
    ELSE self

\* the synthesis with start and end exchanged
_coerce_time_range_Swapped(self) ==
    IF self[K_time_range].t = "null" /\ self[K_start].t # "null" /\ self[K_end].t # "null"
    THEN [self EXCEPT ![K_time_range] = NewTimeRange(self[K_end], self[K_start])]
    ELSE self

\* self is the function from field names to validated values
_coerce_time_range(self) ==
    IF self[K_time_range].t = "null" /\ self[K_start].t # "null" /\ self[K_end].t # "null"
    THEN [self EXCEPT ![K_time_range] = NewTimeRange(self[K_start], self[K_end])]
    ELSE self

\* the mode="before" validator registered for field name of model m
BeforeValidator(m, name, v) ==
    CASE m = "GlobalViralityAnalysis" /\ name = K_target_audience -> _coerce_target_audience(v)
      [] m = "TimelineSegment" /\ name = K_segment_id -> _coerce_segment_id(v)
      [] m = "TimelineSegment" /\ name = K_text_extraction_ocr -> _coerce_text_extraction_ocr(v)
      [] m = "TimelineSegment" /\ name \in {K_start, K_end} -> _convert_time_to_string(v)
      [] OTHER -> Ok(v)

\* the mode="after" validator of model m
AfterValidator(m, self) ==
    IF m = "TimelineSegment" THEN _coerce_time_range(self) ELSE self

(***************************************************************************)
(* pydantic's validation of a value against a field type (lax mode).       *)
(***************************************************************************)
\* the whole of s read as a number, or JNull
WholeNumber(s, r) == IF r.ok /\ r.end = Len(s) + 1 THEN r.val ELSE JNull

StrNumber(s) == WholeNumber(s, ScanNumber(s, 1))

ToFloat(n) == JFloat(n < 0, IF n < 0 THEN -n ELSE n, 0)

TrueStrings == { <<"1">>, <<"o", "n">>, <<"t">>, <<"t", "r", "u", "e">>, <<"y">>, <<"y", "e", "s">> }
FalseStrings == { <<"0">>, <<"o", "f", "f">>, <<"f">>, <<"f", "a", "l", "s", "e">>, <<"n">>, <<"n", "o">> }

\* int: an int, a bool, a float without fractional part
ValidateInt(v) ==
    CASE v.t = "int" -> Ok(v)
      [] v.t = "bool" -> Ok(JInt(IF v.b THEN 1 ELSE 0))
      [] v.t = "float" ->
            IF v.scale = 0 THEN Ok(JInt(IF v.neg THEN -v.mant ELSE v.mant)) ELSE Invalid
      [] OTHER -> Invalid

\* float: a float (NaN and the infinities included), an int, a bool
ValidateFloat(v) ==
    CASE v.t \in {"float", "nan", "inf"} -> Ok(v)
      [] v.t = "int" -> Ok(ToFloat(v.n))
      [] v.t = "bool" -> Ok(ToFloat(IF v.b THEN 1 ELSE 0))
      [] OTHER -> Invalid

\* bool: a bool, the numbers 0 and 1, the strings pydantic reads as a bool
ValidateBool(v) ==
    CASE v.t = "bool" -> Ok(v)
      [] v.t = "int" -> IF v.n \in {0, 1} THEN Ok(JBool(v.n = 1)) ELSE Invalid
      [] v.t = "float" ->
            IF v.scale = 0 /\ v.mant \in {0, 1} /\ (v.mant = 0 \/ ~v.neg)
            THEN Ok(JBool(v.mant = 1))
            ELSE Invalid
      [] v.t = "str" ->
            IF v.s \in TrueStrings THEN Ok(JBool(TRUE))
            ELSE IF v.s \in FalseStrings THEN Ok(JBool(FALSE))
            ELSE Invalid
      [] OTHER -> Invalid

\* a string given for a number is read as a number first (strings are taken
\* in their plain decimal spelling)
Numeric(v) == IF v.t = "str" THEN StrNumber(v.s) ELSE v

\* v read as a number, validated as an int or as a float
ValidateNumber(kind, n) == IF kind = "int" THEN ValidateInt(n) ELSE ValidateFloat(n)

ValidateScalar(kind, v) ==
    CASE kind = "str" -> IF v.t = "str" THEN Ok(v) ELSE Invalid
      [] kind = "bool" -> ValidateBool(v)
      [] OTHER -> ValidateNumber(kind, Numeric(v))

\* the first uncaught exception among outcomes, in order; "none" if there is none
FirstExc(outs) ==
    IF \E i \in DOMAIN outs : outs[i].exc # "none"
    THEN outs[CHOOSE i \in DOMAIN outs :
                 outs[i].exc # "none" /\ \A j \in 1..(i - 1) : outs[j].exc = "none"].exc
    ELSE "none"

\* a list that keeps its valid items and silently drops the others
ValidateList_DropsInvalidItems(outs) ==
    IF FirstExc(outs) # "none" THEN Raised(FirstExc(outs))
    ELSE Ok(JArr(SelectSeq([i \in DOMAIN outs |-> outs[i].val],
                           LAMBDA x : \E i \in DOMAIN outs : outs[i].ok /\ outs[i].val = x)))

\* a list validates when every item does; its errors are collected, so one
\* bad item fails the list
ValidateList(outs) ==
    IF FirstExc(outs) # "none" THEN Raised(FirstExc(outs))
    ELSE IF \A i \in DOMAIN outs : outs[i].ok
         THEN Ok(JArr([i \in DOMAIN outs |-> outs[i].val]))
         ELSE Invalid

RECURSIVE ValidateModel(_, _)
RECURSIVE ItemOutcomes(_, _)

\* the outcomes of validating each item of a list against type
ItemOutcomes(type, items) ==
    IF items = <<>> THEN <<>>
    ELSE << IF type.kind = "list_model"
            THEN ValidateModel(type.sub, Head(items))
            ELSE ValidateScalar("str", Head(items)) >> \o ItemOutcomes(type, Tail(items))

ValidateType(type, v) ==
    IF v.t = "null" THEN (IF type.opt THEN Ok(JNull) ELSE Invalid)
    ELSE CASE type.kind = "model" -> ValidateModel(type.sub, v)
           [] type.kind \in {"list_model", "list_str"} ->
                 IF v.t = "arr" THEN ValidateList(ItemOutcomes(type, v.items)) ELSE Invalid
           [] OTHER -> ValidateScalar(type.kind, v)

\* the field's type is checked on what the before-validator returned
AfterBefore(type, before) == IF before.ok THEN ValidateType(type, before.val) ELSE before

\* a validation that checks the type of the raw value first and repairs after
ValidateField_TypeFirst(m, fld, obj) ==
    IF fld.name \notin DOMAIN obj
    THEN IF fld.type.req THEN Invalid ELSE Ok(fld.type.dflt)
    ELSE IF ValidateType(fld.type, obj[fld.name]).ok
         THEN BeforeValidator(m, fld.name, ValidateType(fld.type, obj[fld.name]).val)
         ELSE Invalid

\* one field of model m read from the input object: the default when the key
\* is absent (validators do not run on defaults), a "missing" error when it
\* is required, else the before-validator and then the type
ValidateField(m, fld, obj) ==
    IF fld.name \notin DOMAIN obj
    THEN IF fld.type.req THEN Invalid ELSE Ok(fld.type.dflt)
    ELSE AfterBefore(fld.type, BeforeValidator(m, fld.name, obj[fld.name]))

RECURSIVE FieldOutcomes(_, _, _)
\* the outcomes of the fields fs of model m, in declaration order
FieldOutcomes(m, fs, obj) ==
    IF fs = <<>> THEN <<>>
    ELSE <<ValidateField(m, Head(fs), obj)>> \o FieldOutcomes(m, Tail(fs), obj)

\* the instance: field name -> validated value
Instance(fs, outs) ==
    [k \in {fs[i].name : i \in DOMAIN fs} |->
        outs[CHOOSE i \in DOMAIN fs : fs[i].name = k].val]

\* the instance is built, and the after-validator run, once every field is
\* valid; the errors of the fields are collected otherwise
Construct(m, fs, outs) ==
    IF FirstExc(outs) # "none" THEN Raised(FirstExc(outs))
    ELSE IF \A i \in DOMAIN fs : outs[i].ok
         THEN Ok(JObj(AfterValidator(m, Instance(fs, outs))))
         ELSE Invalid

ValidateFields(m, fs, obj) == Construct(m, fs, FieldOutcomes(m, fs, obj))

\* a model that reads any value that is no dict as the empty dict
ValidateModel_AcceptsAnyShape(m, v) ==
    ValidateFields(m, Fields(m), IF v.t = "obj" THEN v.f ELSE EmptyMap)

\* a model validates a dict (keys outside the schema are ignored)
\* a model that rejects keys it does not declare (extra = "forbid")
ValidateModel_ForbidsExtra(m, v) ==
    IF v.t # "obj" \/ ~(DOMAIN v.f \subseteq { Fields(m)[i].name : i \in DOMAIN Fields(m) })
    THEN Invalid
    ELSE ValidateFields(m, Fields(m), v.f)

ValidateModel(m, v) == IF v.t # "obj" THEN Invalid ELSE ValidateFields(m, Fields(m), v.f)

\* the report, or the exception model_validate raises
Outcome(out) ==
    IF out.ok THEN [status |-> "ok", value |-> out.val]
    ELSE IF out.exc # "none" THEN [status |-> out.exc]
    ELSE [status |-> "ValidationError"]

\* AnalysisResult.model_validate(payload)
model_validate(v) == Outcome(ValidateModel("AnalysisResult", v))

(***************************************************************************)
(* The report written out as JSON text (pydantic's JSON serialisation of a *)
(* model: fields in declaration order, no spaces, a float that is NaN or   *)
(* infinite written as null).                                              *)
(***************************************************************************)
\* one character of a string inside its quotes
EscapeChar(c) ==
    CASE c = "\"" -> <<"\\", "\"">>
      [] c = "\\" -> <<"\\", "\\">>
      [] c = "\n" -> <<"\\", "n">>
      [] c = "\r" -> <<"\\", "r">>
      [] c = "\t" -> <<"\\", "t">>
      [] c = "\f" -> <<"\\", "f">>
      [] c = Backspace -> <<"\\", "b">>
      [] OTHER -> <<c>>

RECURSIVE EscapeChars(_)
EscapeChars(s) == IF s = <<>> THEN <<>> ELSE EscapeChar(Head(s)) \o EscapeChars(Tail(s))

DumpString(s) == <<"\"">> \o EscapeChars(s) \o <<"\"">>

DumpFloat(v) == IF v.t \in {"nan", "inf"} THEN Lit_null ELSE FloatToStr(v)

\* a validated value of a scalar field
DumpScalar(kind, v) ==
    CASE kind = "str" -> DumpString(v.s)
      [] kind = "int" -> IntToStr(v.n)
      [] kind = "float" -> DumpFloat(v)
      [] kind = "bool" -> IF v.b THEN Lit_true ELSE Lit_false

RECURSIVE DumpModel(_, _)
RECURSIVE DumpItems(_, _)
RECURSIVE DumpFields(_, _)

\* the items of a validated list, separated by commas
DumpItems(type, items) ==
    IF items = <<>> THEN <<>>
    ELSE (IF type.kind = "list_model"
          THEN DumpModel(type.sub, Head(items).f)
          ELSE DumpString(Head(items).s))
         \o (IF Len(items) > 1 THEN <<",">> ELSE <<>>)
         \o DumpItems(type, Tail(items))

\* a validated value of a field of the given type
DumpValue(type, v) ==
    IF v.t = "null" THEN Lit_null
    ELSE CASE type.kind = "model" -> DumpModel(type.sub, v.f)
           [] type.kind \in {"list_model", "list_str"} ->
                 <<"[">> \o DumpItems(type, v.items) \o <<"]">>
           [] OTHER -> DumpScalar(type.kind, v)

\* "name":value for the fields fs of an instance, separated by commas
DumpFields(fs, inst) ==
    IF fs = <<>> THEN <<>>
    ELSE <<"\"">> \o Head(fs).name \o <<"\"", ":">>
         \o DumpValue(Head(fs).type, inst[Head(fs).name])
         \o (IF Len(fs) > 1 THEN <<",">> ELSE <<>>)
         \o DumpFields(Tail(fs), inst)

DumpModel(m, inst) == <<"{">> \o DumpFields(Fields(m), inst) \o <<"}">>

\* AnalysisResult.model_dump_json()
model_dump_json(report) == DumpModel("AnalysisResult", report.f)

(***************************************************************************)
(* Replies of the model.  A reply is either assembled from a body (a JSON  *)
(* text, or text that is no JSON), optionally put between an opening fence *)
(* line and a closing fence and surrounded by whitespace, or an arbitrary  *)
(* concatenation of at most MaxParts fragments.                            *)
(***************************************************************************)
Doc_EmptyObject == <<"{", "}">>
Doc_EmptyArray == <<"[", "]">>
Doc_Int == <<"1">>
Doc_Float == <<"-", "2", ".", "5">>
Doc_String == <<"\"", "a", "\"">>
Doc_Null == <<"n", "u", "l", "l">>
Doc_True == <<"t", "r", "u", "e">>
Doc_Object == <<"{", "\"", "a", "\"", ":", "1", "}">>
Doc_Array == <<"[", "1", ",", " ", "2", "]">>
Doc_FenceInString == <<"\"", "x", Backtick, Backtick, Backtick, "\"">>
Doc_Spaced ==
    <<"{", "\"", "k", "\"", ":", "\n", "[", "n", "u", "l", "l", "]", " ",
      "}">>
Doc_OneSegment ==
    <<"{", "\"", "t", "i", "m", "e", "l", "i", "n", "e", "_", "s", "e", "g",
      "m", "e", "n", "t", "s", "\"", ":", "[", "{", "\"", "s", "e", "g", "m",
      "e", "n", "t", "_", "i", "d", "\"", ":", "1", ",", "\"", "s", "t", "a",
      "r", "t", "\"", ":", "6", "5", ",", "\"", "e", "n", "d", "\"", ":",
      "7", "0", "}", "]", "}">>
Doc_TwoSegments ==
    <<"{", "\"", "t", "i", "m", "e", "l", "i", "n", "e", "_", "s", "e",
      "g", "m", "e", "n", "t", "s", "\"", ":", "[", "{", "\"", "s", "e",
      "g", "m", "e", "n", "t", "_", "i", "d", "\"", ":", "2", ",", "\"",
      "s", "t", "a", "r", "t", "\"", ":", "5", ",", "\"", "e", "n", "d",
      "\"", ":", "9", "}", ",", "{", "\"", "s", "e", "g", "m", "e", "n",
      "t", "_", "i", "d", "\"", ":", "\"", "a", "\"", ",", "\"", "s", "t",
      "a", "r", "t", "\"", ":", "\"", "0", "0", ":", "1", "0", "\"", ",",
      "\"", "e", "n", "d", "\"", ":", "7", "5", "}", "]", "}">>
Text_NotJson ==
    <<"n", "o", "t", " ", "j", "s", "o", "n", " ", "a", "t", " ", "a", "l",
      "l">>
Text_NaN == <<"N", "a", "N">>
Text_SingleQuotes == <<"{", "'", "a", "'", ":", "1", "}">>
Text_Truncated == <<"{", "\"", "a", "\"", ":">>
Text_Empty == <<>>

Docs == { Doc_EmptyObject, Doc_EmptyArray, Doc_Int, Doc_Float, Doc_String, Doc_Null,
          Doc_True, Doc_Object, Doc_Array, Doc_FenceInString, Doc_Spaced, Doc_OneSegment,
          Doc_TwoSegments }

NonDocs == { Text_NotJson, Text_NaN, Text_SingleQuotes, Text_Truncated, Text_Empty }

OuterWs == { <<>>, <<" ">>, <<"\n", "\t">>, <<"\f">> }

NoFence == <<>>
OpeningFences == { Fence \o <<"\n">>, Fence \o <<"j", "s", "o", "n", "\n">> }
ClosingFences == { Fence, <<"\n">> \o Fence }

Wrap(ws1, open, body, close, ws2) == ws1 \o open \o body \o close \o ws2

WrappedTexts ==
    { Wrap(ws1, open, body, close, ws2) :
        ws1 \in OuterWs, open \in OpeningFences \cup {NoFence}, body \in Docs \cup NonDocs,
        close \in ClosingFences \cup {NoFence}, ws2 \in OuterWs }

Fragments ==
    { Fence, <<"j", "s", "o", "n">>, <<"\n">>, <<" ">>, <<"{", "}">>, <<"[">>, <<"1">>, <<"]">>,
      Lit_NaN }

RECURSIVE Concats(_)
\* the concatenations of at most n fragments
Concats(n) ==
    IF n = 0 THEN { <<>> }
    ELSE LET shorter == Concats(n - 1)
         IN  shorter \cup { s \o f : s \in shorter, f \in Fragments }

Texts == WrappedTexts \cup Concats(MaxParts)

(***************************************************************************)
(* Values handed to the coercer.                                           *)
(***************************************************************************)
\* marks a key left out of an object under construction
Absent == [t |-> "absent"]

\* the object with the given <<key, value>> pairs, less the Absent ones
MkObj(pairs) ==
    LET present == {i \in DOMAIN pairs : pairs[i][2] # Absent}
    IN  JObj([k \in {pairs[i][1] : i \in present} |->
                pairs[CHOOSE i \in present : pairs[i][1] = k][2]])

\* obj with key k set to v
Put(obj, k, v) == JObj((k :> v) @@ obj.f)

\* the objects obtained from obj by leaving out any subset of its keys
PartialsOf(obj) == { JObj([k \in keep |-> obj.f[k]]) : keep \in SUBSET DOMAIN obj.f }

\* {"timeline_segments": segs}
SegmentsPayload(segs) == JObj(K_timeline_segments :> JArr(segs))

FullTechnicalSpecs ==
    JObj((K_resolution :> JStr(<<"1", "0", "8", "0",
      "p">>)) @@ (K_fps :> JInt(30)) @@ (K_audio_channels :> JInt(2)))

FullTimeRange ==
    JObj((K_start :> JStr(<<"0", "0", ":", "0",
      "0">>)) @@ (K_end :> JStr(<<"0", "0", ":", "0", "5">>)))

FullAction ==
    JObj((K_action :> JStr(<<"r", "u", "n">>)) @@ (K_timestamp :> JStr(<<"0",
      "0", ":", "0", "1">>)))

FullGlobalAnalysis ==
    JObj((K_title_detected :> JStr(<<"T">>)) @@ (K_topics :> JArr(<<JStr(<<"a">>)>>)) @@ (K_summary :> JStr(<<"s">>)) @@ (K_overall_sentiment :> JStr(<<"p",
      "o", "s">>)) @@ (K_dominant_language :> JStr(<<"e", "n">>)))

FullGlobalVirality ==
    JObj((K_virality_score :> JInt(7)) @@ (K_hook_strategy :> JStr(<<"h">>)) @@ (K_target_audience :> JStr(<<"G",
      "e", "n", " ", "Z">>)) @@ (K_share_trigger :> JStr(<<"s">>)))

FullVisualSubject ==
    JObj((K_label :> JStr(<<"p">>)) @@ (K_attributes :> JArr(<<JStr(<<"a">>)>>)) @@ (K_action :> JStr(<<"x">>)) @@ (K_emotion :> JStr(<<"e">>)))

FullFileInfo ==
    JObj((K_video_id :> JStr(<<"v", "1">>)) @@ (K_filename :> JStr(<<"a",
      ".", "m", "p",
      "4">>)) @@ (K_processed_at :> JStr(<<"t">>)) @@ (K_duration_seconds :> JFloat(FALSE,
      125, 1)) @@ (K_technical_specs :> FullTechnicalSpecs))

FullEntities ==
    JObj((K_actions_detected :> JArr(<<FullAction>>)) @@ (K_key_objects :> JArr(<<JStr(<<"k">>)>>)) @@ (K_referenced_links :> JArr(<<>>)))

FullVisualAnalysis ==
    JObj((K_shot_type :> JStr(<<"w", "i", "d",
      "e">>)) @@ (K_camera_movement :> JStr(<<"p", "a",
      "n">>)) @@ (K_main_subjects :> JArr(<<FullVisualSubject>>)) @@ (K_environment :> JStr(<<"v">>)))

FullSegment ==
    JObj((K_segment_id :> JStr(<<"1">>)) @@ (K_time_range :> FullTimeRange) @@ (K_start :> JStr(<<"0",
      "0", ":", "0", "0">>)) @@ (K_end :> JStr(<<"0", "0", ":", "0",
      "5">>)) @@ (K_classification :> JObj((K_type :> JStr(<<"i", "n", "t",
      "r",
      "o">>)) @@ (K_topic :> JStr(<<"t">>)))) @@ (K_visual_analysis :> FullVisualAnalysis) @@ (K_audio_analysis :> JObj((K_transcript :> JStr(<<"h",
      "i">>)) @@ (K_speaker_id :> JStr(<<"s",
      "1">>)) @@ (K_bg_music :> JStr(<<"m">>)) @@ (K_voice_intonation :> JStr(<<"i">>)))) @@ (K_text_extraction_ocr :> JObj((K_visible_text :> JArr(<<JStr(<<"L",
      "O", "G", "I", "N">>)>>)) @@ (K_programming_language :> JStr(<<"p",
      "y">>)))) @@ (K_engagement_mechanics :> JObj((K_is_hook :> JBool(TRUE)) @@ (K_tactic :> JStr(<<"t">>)) @@ (K_psychological_trigger :> JStr(<<"p">>)))) @@ (K_ir_reconstruction :> JObj((K_abstract_concept :> JStr(<<"a">>)) @@ (K_generative_prompt :> JStr(<<"g">>)))))

FullDoc ==
    JObj((K_file_info :> FullFileInfo) @@ (K_global_analysis :> FullGlobalAnalysis) @@ (K_global_virality :> FullGlobalVirality) @@ (K_timeline_segments :> JArr(<<FullSegment>>)) @@ (K_extracted_entities :> FullEntities))

\* a fully populated report, with keys left out at one nesting level
PartialDocs ==
    PartialsOf(FullDoc)
    \cup { Put(FullDoc, K_file_info, p) : p \in PartialsOf(FullFileInfo) }
    \cup { Put(FullDoc, K_file_info, Put(FullFileInfo, K_technical_specs, p)) :
             p \in PartialsOf(FullTechnicalSpecs) }
    \cup { Put(FullDoc, K_global_analysis, p) : p \in PartialsOf(FullGlobalAnalysis) }
    \cup { Put(FullDoc, K_global_virality, p) : p \in PartialsOf(FullGlobalVirality) }
    \cup { Put(FullDoc, K_extracted_entities, p) : p \in PartialsOf(FullEntities) }
    \cup { Put(FullDoc, K_extracted_entities, Put(FullEntities, K_actions_detected, JArr(<<p>>))) :
             p \in PartialsOf(FullAction) }
    \cup { Put(FullDoc, K_timeline_segments, JArr(<<p>>)) : p \in PartialsOf(FullSegment) }
    \cup UNION { { Put(FullDoc, K_timeline_segments, JArr(<<Put(FullSegment, k, p)>>)) :
                      p \in PartialsOf(FullSegment.f[k]) } :
                    k \in DOMAIN FullSegment.f \ {K_segment_id, K_start, K_end} }
    \cup { Put(FullDoc, K_timeline_segments, JArr(<<Put(FullSegment, K_visual_analysis,
                 Put(FullVisualAnalysis, K_main_subjects, JArr(<<p>>)))>>)) :
             p \in PartialsOf(FullVisualSubject) }

\* what a model may give as a time: seconds as int or float, a time string,
\* text that is no time, and values of other types
Time_0205 == <<"0", "2", ":", "0", "5">>
Time_Malformed == <<"a", "b", "c">>
TimeNumbers ==
    { JInt(0), JInt(65), JInt(125), JInt(140), JInt(3725), JFloat(FALSE, 1257, 1) }
TimeStrings == { JStr(Time_0205), JStr(Time_Malformed), JStr(<<>>) }
TimeOthers == { JNull, JBool(TRUE), JNaN, JInf(FALSE), JArr(<<>>) }
TimeVals == TimeNumbers \cup TimeStrings \cup TimeOthers

NestedRanges ==
    { JNull,
      JObj(EmptyMap),
      MkObj(<< <<K_start, JStr(Time_0205)>>, <<K_end, JStr(Time_Malformed)>> >>),
      MkObj(<< <<K_start, JInt(5)>>, <<K_end, JInt(3725)>> >>),
      MkObj(<< <<K_start, JStr(Time_0205)>> >>),
      MkObj(<< <<K_end, JStr(Time_0205)>> >>) }

\* one segment carrying only time information
TimeSegments ==
    { MkObj(<< <<K_start, st>>, <<K_end, en>>, <<K_time_range, tr>> >>) :
        st \in TimeVals \cup {Absent}, en \in TimeVals \cup {Absent},
        tr \in NestedRanges \cup {Absent} }

\* segments that validate, and segments with one invalid part
SampleSegments ==
    { JObj(EmptyMap),
      FullSegment,
      MkObj(<< <<K_segment_id, JInt(1)>>, <<K_start, JInt(65)>>, <<K_end, JInt(70)>> >>),
      MkObj(<< <<K_time_range, MkObj(<< <<K_start, JStr(Time_0205)>> >>)>> >>),
      MkObj(<< <<K_segment_id, JInt(2)>>, <<K_visual_analysis, JStr(<<"x">>)>> >>),
      Put(FullSegment, K_visual_analysis,
          Put(FullVisualAnalysis, K_main_subjects, JArr(<<JStr(<<"x">>)>>))),
      JStr(<<"x">>) }

RECURSIVE SeqsUpTo(_, _)
\* the sequences over S of length at most n
SeqsUpTo(S, n) ==
    IF n = 0 THEN { <<>> }
    ELSE LET shorter == SeqsUpTo(S, n - 1)
         IN  shorter \cup { Append(q, x) : q \in shorter, x \in S }

SegmentLists == SeqsUpTo(SampleSegments, MaxSegments)

\* payloads that are no report object: other JSON shapes, the extractor's
\* error envelope, the empty object
OtherPayloads ==
    { JNull, JBool(TRUE), JInt(1), JFloat(TRUE, 25, 1), JStr(<<"a">>), JArr(<<>>),
      JArr(<<JObj(EmptyMap)>>), JNaN, ErrorEnvelope(Text_NotJson), JObj(EmptyMap),
      JObj(K_timeline_segments :> JObj(EmptyMap)) }

\* what a model may give as a segment identifier
IdVals ==
    { JInt(3), JInt(0), JInt(12), JInt(-7), JFloat(FALSE, 25, 1), JBool(TRUE),
      JStr(<<"s", "1">>), JStr(<<>>), JNull }

Text_LOGIN == <<"L", "O", "G", "I", "N">>
Text_PASSWORD == <<"P", "A", "S", "S", "W", "O", "R", "D">>

\* what a model may give as on-screen text: bare lists, the nested object,
\* and values of other shapes
OcrVals ==
    { JArr(<<JStr(Text_LOGIN), JStr(Text_PASSWORD)>>),
      JArr(<<JStr(Text_PASSWORD), JStr(Text_LOGIN), JStr(<<>>)>>),
      JArr(<<JStr(Text_LOGIN)>>),
      JArr(<<>>),
      JArr(<<JInt(1)>>),
      JNull,
      JObj(EmptyMap),
      JObj(K_visible_text :> JArr(<<JStr(Text_LOGIN)>>)),
      JObj(K_visible_text :> JArr(<<>>)),
      JStr(Text_LOGIN) }

Text_GenZ == <<"G", "e", "n", " ", "Z">>
Text_TechEnthusiasts ==
    <<"T", "e", "c", "h", " ", "E", "n", "t", "h", "u", "s", "i", "a", "s", "t", "s">>

\* what a model may give as target audience
AudienceVals ==
    { JArr(<<JStr(Text_GenZ), JStr(Text_TechEnthusiasts)>>),
      JArr(<<JStr(Text_TechEnthusiasts), JStr(Text_GenZ), JStr(<<"a">>)>>),
      JArr(<<JStr(Text_GenZ)>>),
      JArr(<<>>),
      JArr(<<JInt(1), JStr(<<"a">>)>>),
      JStr(Text_GenZ),
      JStr(<<>>),
      JNull,
      JInt(5) }

\* one segment carrying the fields that have a repair
RepairSegments ==
    { MkObj(<< <<K_segment_id, id>>, <<K_text_extraction_ocr, ocr>>, <<K_start, st>> >>) :
        id \in IdVals \cup {Absent}, ocr \in OcrVals \cup {Absent},
        st \in {Absent, JInt(65)} }

\* {"global_virality": {"target_audience": v}}, alone and beside a segment
AudiencePayloads ==
    { MkObj(<< <<K_global_virality, MkObj(<< <<K_target_audience, v>>, <<K_virality_score, sc>> >>)>>,
               <<K_timeline_segments, segs>> >>) :
        v \in AudienceVals \cup {Absent}, sc \in {Absent, JInt(7)},
        segs \in {Absent, JArr(<<JObj(K_segment_id :> JInt(3))>>)} }

\* reports whose numbers are no JSON numbers (json.loads reads NaN, Infinity
\* and -Infinity)
NonFinitePayloads ==
    { JObj(K_file_info :> JObj(K_duration_seconds :> v)) : v \in {JNaN, JInf(FALSE), JInf(TRUE)} }
    \cup { JObj(K_file_info :> JObj(K_technical_specs :> JObj(K_fps :> JNaN))),
           JObj(K_global_virality :> JObj(K_virality_score :> JNaN)) }

Payloads ==
    { SegmentsPayload(<<seg>>) : seg \in TimeSegments }
    \cup { SegmentsPayload(segs) : segs \in SegmentLists }
    \cup PartialDocs
    \cup OtherPayloads
    \cup { SegmentsPayload(<<seg>>) : seg \in RepairSegments }
    \cup AudiencePayloads
    \cup NonFinitePayloads

(***************************************************************************)
(* The state machine.  Every entry point is one synchronous call.          *)
(***************************************************************************)
Unset == [t |-> "unset"]
NoResult == [status |-> "unset"]

\* a provider reply arrives; nothing has run yet
Init ==
    /\ text \in Texts
    /\ payload = Unset
    /\ result = NoResult
    /\ pc = "start"
    /\ call = "none"
    /\ seconds = 0
    /\ timeStr = <<>>

\* Gemini path: extract, then validate
analyze_video_structure ==
    /\ pc = "start"
    /\ payload' = _parse_json_safe(text)
    /\ result' = model_validate(payload')
    /\ pc' = "done"
    /\ call' = "analyze_video_structure"
    /\ UNCHANGED <<text, seconds, timeStr>>

\* Gemini path: extract only, the parsed value is returned as it is
reverse_engineer_scenes ==
    /\ pc = "start"
    /\ payload' = _parse_json_safe(text)
    /\ pc' = "done"
    /\ call' = "reverse_engineer_scenes"
    /\ UNCHANGED <<text, result, seconds, timeStr>>

\* OpenRouter path: extract, then validate
analyze_video_with_openrouter ==
    /\ pc = "start"
    /\ payload' = parse_json_from_model_text(text)
    /\ result' = model_validate(payload')
    /\ pc' = "done"
    /\ call' = "analyze_video_with_openrouter"
    /\ UNCHANGED <<text, seconds, timeStr>>

\* OpenRouter path: extract only
reverse_engineer_with_openrouter ==
    /\ pc = "start"
    /\ payload' = parse_json_from_model_text(text)
    /\ pc' = "done"
    /\ call' = "reverse_engineer_with_openrouter"
    /\ UNCHANGED <<text, result, seconds, timeStr>>

Next ==
    \/ analyze_video_structure
    \/ reverse_engineer_scenes
    \/ analyze_video_with_openrouter
    \/ reverse_engineer_with_openrouter

Spec == Init /\ [][Next]_vars

(***************************************************************************)
(* The coercer on its own: AnalysisResult.model_validate applied to a      *)
(* parsed value.                                                           *)
(***************************************************************************)
InitCoerce ==
    /\ text = <<>>
    /\ payload \in Payloads
    /\ result = NoResult
    /\ pc = "parsed"
    /\ call = "none"
    /\ seconds = 0
    /\ timeStr = <<>>

AnalysisResult_model_validate ==
    /\ pc = "parsed"
    /\ result' = model_validate(payload)
    /\ pc' = "done"
    /\ call' = "model_validate"
    /\ UNCHANGED <<text, payload, seconds, timeStr>>

NextCoerce == AnalysisResult_model_validate

SpecCoerce == InitCoerce /\ [][NextCoerce]_vars

(***************************************************************************)
(* The round trip of a report: coerced, written out as JSON, read back     *)
(* and coerced again.                                                      *)
(***************************************************************************)
revalidate ==
    /\ pc = "done"
    /\ call = "model_validate"
    /\ result.status = "ok"
    /\ text' = model_dump_json(result.value)
    /\ payload' = _parse_json_safe(text')
    /\ result' = model_validate(payload')
    /\ pc' = "again"
    /\ call' = "revalidate"
    /\ UNCHANGED <<seconds, timeStr>>

NextRoundTrip ==
    \/ AnalysisResult_model_validate
    \/ revalidate

SpecRoundTrip == InitCoerce /\ [][NextRoundTrip]_vars

(***************************************************************************)
(* The coercer on payloads that carry keys no model declares.              *)
(***************************************************************************)
K_x_extra == <<"x", "_", "e", "x", "t", "r", "a">>

\* keys that no model of the schema declares
UnknownKeys == { K_x_extra, K_error }

\* values an unknown key may carry
UnknownVals == { JInt(1), JObj(K_start :> JInt(5)) }

RECURSIVE WithUnknownKey(_)
\* the values obtained from v by adding one unknown key to one object in it
WithUnknownKey(v) ==
    CASE v.t = "obj" ->
            { Put(v, k, x) : k \in UnknownKeys, x \in UnknownVals }
              \cup UNION { { JObj((k :> w) @@ v.f) : w \in WithUnknownKey(v.f[k]) } :
                            k \in DOMAIN v.f }
      [] v.t = "arr" ->
            UNION { { JArr([v.items EXCEPT ![i] = w]) : w \in WithUnknownKey(v.items[i]) } :
                      i \in DOMAIN v.items }
      [] OTHER -> {}

\* payloads the coercer accepts, rejects, and fails on with an exception
ExtraKeyBases ==
    { FullDoc,
      JObj(EmptyMap),
      SegmentsPayload(<<MkObj(<< <<K_segment_id, JInt(1)>>, <<K_start, JInt(65)>>,
                                 <<K_end, JInt(70)>> >>)>>),
      SegmentsPayload(<<JObj(K_text_extraction_ocr :> JObj(K_visible_text :> JArr(<<JStr(Text_LOGIN)>>)))>>),
      SegmentsPayload(<<JObj(K_time_range :> JObj(K_start :> JStr(Time_0205)))>>),
      SegmentsPayload(<<JObj(EmptyMap), JObj(K_visual_analysis :> JStr(<<"x">>))>>),
      SegmentsPayload(<<JObj(K_start :> JArr(<<>>))>>),
      JObj(K_global_virality :> JObj(K_target_audience :> JArr(<<JStr(Text_GenZ)>>))),
      JObj(K_file_info :> JObj(K_technical_specs :> JObj(K_fps :> JStr(<<"f", "a", "s", "t">>)))) }

\* <<payload with one unknown key added, payload without it>>
ExtraKeyCases == UNION { { <<w, base>> : w \in WithUnknownKey(base) } : base \in ExtraKeyBases }

ExtraKeyPayloads == ExtraKeyBases \cup { c[1] : c \in ExtraKeyCases }

InitExtraKeys ==
    /\ text = <<>>
    /\ payload \in ExtraKeyPayloads
    /\ result = NoResult
    /\ pc = "parsed"
    /\ call = "none"
    /\ seconds = 0
    /\ timeStr = <<>>

NextExtraKeys == AnalysisResult_model_validate

SpecExtraKeys == InitExtraKeys /\ [][NextExtraKeys]_vars

(***************************************************************************)
(* call_openrouter_video: the first text of the provider's response body.  *)
(* payload holds resp_json, result what the function returns or raises.    *)
(***************************************************************************)
K_choices == <<"c", "h", "o", "i", "c", "e", "s">>
K_message == <<"m", "e", "s", "s", "a", "g", "e">>
K_content == <<"c", "o", "n", "t", "e", "n", "t">>
K_text == <<"t", "e", "x", "t">>
Text_hi == <<"h", "i">>
Text_yo == <<"y", "o">>

\* v[k] for a str key k: only a dict can be subscripted by a str
PySubscript(v, k) ==
    IF v.t = "obj"
    THEN IF k \in DOMAIN v.f THEN Ok(v.f[k]) ELSE Raised("KeyError")
    ELSE Raised("TypeError")

\* v[0]: the first item of a list, the first character of a str; a JSON
\* object has no key 0; nothing else can be subscripted
PyFirst(v) ==
    CASE v.t = "arr" -> IF v.items # <<>> THEN Ok(Head(v.items)) ELSE Raised("IndexError")
      [] v.t = "str" -> IF v.s # <<>> THEN Ok(JStr(<<Head(v.s)>>)) ELSE Raised("IndexError")
      [] v.t = "obj" -> Raised("KeyError")
      [] OTHER -> Raised("TypeError")

\* bool(v)
Truthy(v) ==
    CASE v.t = "null" -> FALSE
      [] v.t = "bool" -> v.b
      [] v.t = "int" -> v.n # 0
      [] v.t = "float" -> v.mant # 0
      [] v.t = "str" -> v.s # <<>>
      [] v.t = "arr" -> v.items # <<>>
      [] v.t = "obj" -> DOMAIN v.f # {}
      [] OTHER -> TRUE

\* part.get("text", "")
GetText(part) == IF K_text \in DOMAIN part.f THEN part.f[K_text] ELSE JStr(<<>>)

\* part.get("type") == "text"
IsTextPart(part) == K_type \in DOMAIN part.f /\ part.f[K_type] = JStr(K_text)

RECURSIVE FirstText(_, _)
\* the loop over the parts of a list content; only a dict has .get
FirstText(parts, text_out) ==
    IF parts = <<>> THEN Ok(text_out)
    ELSE IF Head(parts).t # "obj" THEN Raised("AttributeError")
    ELSE IF ~IsTextPart(Head(parts)) THEN FirstText(Tail(parts), text_out)
    ELSE IF Truthy(GetText(Head(parts))) THEN Ok(GetText(Head(parts)))
    ELSE FirstText(Tail(parts), GetText(Head(parts)))

\* choice = resp_json["choices"][0]
FirstChoice(choices) == IF choices.ok THEN PyFirst(choices.val) ELSE choices

ChoiceMessage(choice) == IF choice.ok THEN PySubscript(choice.val, K_message) ELSE choice

\* content = choice["message"]["content"]
MessageContent(message) == IF message.ok THEN PySubscript(message.val, K_content) ELSE message

\* the branches on the type of content
ContentText(content) ==
    IF ~content.ok THEN content
    ELSE CASE content.val.t = "arr" -> FirstText(content.val.items, JStr(<<>>))
           [] content.val.t = "str" -> Ok(content.val)
           [] OTHER -> Ok(JStr(<<>>))

\* except (KeyError, IndexError, TypeError): text_out = ""
ExceptLookup(out) ==
    IF ~out.ok /\ out.exc \in {"KeyError", "IndexError", "TypeError"} THEN Ok(JStr(<<>>)) ELSE out

\* the try block of call_openrouter_video
ExtractText(resp_json) ==
    ExceptLookup(ContentText(MessageContent(ChoiceMessage(FirstChoice(
        PySubscript(resp_json, K_choices))))))

\* return {"raw": resp_json, "text": text_out}, or the exception that escapes
Returned(resp_json, out) ==
    IF out.ok THEN [status |-> "ok", value |-> JObj((K_raw :> resp_json) @@ (K_text :> out.val))]
    ELSE [status |-> out.exc]

\* the parts a list content may hold
PartVals ==
    { JObj((K_type :> JStr(K_text)) @@ (K_text :> JStr(Text_hi))),
      JObj((K_type :> JStr(K_text)) @@ (K_text :> JStr(Text_yo))),
      JObj((K_type :> JStr(K_text)) @@ (K_text :> JStr(<<>>))),
      JObj((K_type :> JStr(K_text)) @@ (K_text :> JNull)),
      JObj((K_type :> JStr(K_text)) @@ (K_text :> JInt(5))),
      JObj(K_type :> JStr(K_text)),
      JObj(K_type :> JStr(<<"i", "m", "a", "g", "e", "_", "u", "r", "l">>)),
      JObj(K_text :> JStr(Text_hi)),
      JObj(EmptyMap),
      JStr(Text_hi),
      JNull }

ContentVals ==
    { JArr(parts) : parts \in SeqsUpTo(PartVals, MaxContentParts) }
      \cup { JStr(Text_hi), JStr(<<>>), JNull, JInt(7), JObj(K_text :> JStr(Text_hi)) }

MessageVals ==
    { JObj(K_content :> c) : c \in ContentVals }
      \cup { JObj(EmptyMap), JNull, JStr(Text_hi), JArr(<<>>) }

ChoiceVals ==
    { JObj(K_message :> m) : m \in MessageVals }
      \cup { JObj(EmptyMap), JNull, JStr(<<"x">>), JArr(<<>>), JInt(0) }

ChoicesVals ==
    { JArr(<<c>>) : c \in ChoiceVals }
      \cup { JArr(<<c, JObj(K_message :> JObj(K_content :> JStr(Text_yo)))>>) :
                c \in { JObj(EmptyMap), JObj(K_message :> JObj(K_content :> JStr(Text_hi))) } }
      \cup { JArr(<<>>), JObj(EmptyMap), JNull, JStr(<<"a", "b">>), JStr(<<>>), JInt(1) }

\* what resp.json() may return
ResponseBodies ==
    { JObj(K_choices :> cs) : cs \in ChoicesVals }
      \cup { JObj(EmptyMap), JObj(K_error :> JObj(K_message :> JStr(Text_hi))), JArr(<<>>),
             JArr(<<JObj(EmptyMap)>>), JNull, JStr(Text_hi), JInt(1), JBool(TRUE), JNaN }

InitExtract ==
    /\ text = <<>>
    /\ payload \in ResponseBodies
    /\ result = NoResult
    /\ pc = "start"
    /\ call = "none"
    /\ seconds = 0
    /\ timeStr = <<>>

call_openrouter_video ==
    /\ pc = "start"
    /\ result' = Returned(payload, ExtractText(payload))
    /\ pc' = "done"
    /\ call' = "call_openrouter_video"
    /\ UNCHANGED <<text, payload, seconds, timeStr>>

NextExtract == call_openrouter_video

SpecExtract == InitExtract /\ [][NextExtract]_vars

(***************************************************************************)
(* The seconds-to-string conversion on its own.                            *)
(***************************************************************************)
InitTime ==
    /\ text = <<>>
    /\ payload = Unset
    /\ result = NoResult
    /\ pc = "start"
    /\ call = "none"
    /\ seconds \in 0..MaxSeconds
    /\ timeStr = <<>>

seconds_to_time_string ==
    /\ pc = "start"
    /\ timeStr' = _seconds_to_time_string(JInt(seconds)).val.s
    /\ pc' = "done"
    /\ call' = "_seconds_to_time_string"
    /\ UNCHANGED <<text, payload, result, seconds>>

NextTime == seconds_to_time_string

SpecTime == InitTime /\ [][NextTime]_vars

(***************************************************************************)
(* Properties of the extractor.                                            *)
(***************************************************************************)
\* the entry points that go through _parse_json_safe
GeminiCalls == {"analyze_video_structure", "reverse_engineer_scenes"}

\* the entry points that go through parse_json_from_model_text
OpenRouterCalls == {"analyze_video_with_openrouter", "reverse_engineer_with_openrouter"}

\* the entry points that hand the extracted value to the coercer
ValidatingCalls == {"analyze_video_structure", "analyze_video_with_openrouter"}

\* the fence-stripped text the extractor of the call that ran tried to parse
TriedText == IF call \in GeminiCalls THEN StripFences(text) ELSE Cleaned(text)

\* C1: whenever the trimmed, fence-stripped reply is not valid JSON, the
\* extractor returns the error envelope whose raw field is that
\* fence-stripped text.
C1_NonJsonYieldsEnvelope ==
    (pc = "done" /\ ~IsValidJSON(TriedText)) => payload = ErrorEnvelope(TriedText)

\* the value each JSON text of Docs denotes, written out by hand
DocValue(doc) ==
    CASE doc = Doc_EmptyObject -> JObj(EmptyMap)
      [] doc = Doc_EmptyArray -> JArr(<<>>)
      [] doc = Doc_Int -> JInt(1)
      [] doc = Doc_Float -> JFloat(TRUE, 25, 1)
      [] doc = Doc_String -> JStr(<<"a">>)
      [] doc = Doc_Null -> JNull
      [] doc = Doc_True -> JBool(TRUE)
      [] doc = Doc_Object -> JObj(<<"a">> :> JInt(1))
      [] doc = Doc_Array -> JArr(<<JInt(1), JInt(2)>>)
      [] doc = Doc_FenceInString -> JStr(<<"x", Backtick, Backtick, Backtick>>)
      [] doc = Doc_Spaced -> JObj(<<"k">> :> JArr(<<JNull>>))
      [] doc = Doc_OneSegment ->
            JObj(K_timeline_segments :>
                   JArr(<< JObj((K_segment_id :> JInt(1)) @@ (K_start :> JInt(65))
                                  @@ (K_end :> JInt(70))) >>))
      [] doc = Doc_TwoSegments ->
            JObj(K_timeline_segments :>
                   JArr(<< JObj((K_segment_id :> JInt(2)) @@ (K_start :> JInt(5))
                                  @@ (K_end :> JInt(9))),
                           JObj((K_segment_id :> JStr(<<"a">>))
                                  @@ (K_start :> JStr(<<"0", "0", ":", "1", "0">>))
                                  @@ (K_end :> JInt(75))) >>))

\* <<reply, doc>>: reply is the JSON text doc surrounded by whitespace, bare
\* or behind an opening fence line, with a closing fence when there is an
\* opening one
FencedDocCases ==
    { <<Wrap(ws1, w[1], doc, w[2], ws2), doc>> :
        ws1 \in OuterWs, ws2 \in OuterWs, doc \in Docs,
        w \in {<<NoFence, NoFence>>} \cup (OpeningFences \X (ClosingFences \cup {NoFence})) }

FencedDocTexts == { c[1] : c \in FencedDocCases }

\* C2: a reply that is a valid JSON text, optionally surrounded by
\* whitespace and optionally wrapped in an opening fence line (with or
\* without a language tag) and a closing fence, is extracted to exactly the
\* value the JSON text denotes, never to an error envelope.
C2_FencedJsonIsParsed ==
    /\ \A doc \in Docs : IsValidJSON(doc)
    /\ (pc = "done" /\ text \in FencedDocTexts) =>
          \A c \in FencedDocCases :
              c[1] = text => payload = DocValue(c[2]) /\ payload # ErrorEnvelope(TriedText)

C2_Witness ==
    /\ pc = "done"
    /\ call = "analyze_video_structure"
    /\ text = Wrap(<<" ">>, Fence \o <<"j", "s", "o", "n", "\n">>, Doc_Object,
                   <<"\n">> \o Fence, <<"\n", "\t">>)
    /\ payload = JObj(<<"a">> :> JInt(1))

(***************************************************************************)
(* Properties of the coercer.                                              *)
(***************************************************************************)
\* v is an error envelope of the extractor
IsErrorEnvelope(v) == Has(v, K_error) /\ Has(v, K_raw) /\ v = ErrorEnvelope(v.f[K_raw].s)

\* C3: when an entry point hands the extractor's error envelope to the
\* coercer, validation fails with a schema-validation error; no (empty)
\* AnalysisResult is returned.
C3_EnvelopeFailsValidation ==
    (pc = "done" /\ call \in ValidatingCalls /\ IsErrorEnvelope(payload))
        => result.status = "ValidationError"

\* C4: when the value handed to the coercer is not a JSON object (an array,
\* a string, a number, a boolean or null), validation fails with a
\* schema-validation error and no AnalysisResult is returned.
C4_NonObjectFailsValidation ==
    (pc = "done" /\ call \in ValidatingCalls /\ payload.t # "obj")
        => result = [status |-> "ValidationError"]

C4_Witness ==
    /\ pc = "done"
    /\ call = "analyze_video_with_openrouter"
    /\ text = Doc_Array
    /\ payload = JArr(<<JInt(1), JInt(2)>>)
    /\ result = [status |-> "ValidationError"]

\* the field names of model m
FieldNames(m) == { Fields(m)[i].name : i \in DOMAIN Fields(m) }

\* C5: a report object from which any subset of fields is absent, at any
\* nesting level, is accepted, and each absent top-level field holds its
\* null / empty-list default; absence never fails validation.
C5_AbsentFieldsNeverFail ==
    (pc = "done" /\ payload \in PartialDocs) =>
        /\ result.status = "ok"
        /\ \A i \in DOMAIN AnalysisResult :
              AnalysisResult[i].name \notin DOMAIN payload.f =>
                  result.value.f[AnalysisResult[i].name] = AnalysisResult[i].type.dflt

\* a segment that cannot be a TimelineSegment whatever else it holds: it is
\* no object, or one of its nested blocks is a string
PlainlyInvalidSegment(seg) ==
    \/ seg.t # "obj"
    \/ Has(seg, K_visual_analysis) /\ seg.f[K_visual_analysis].t = "str"
    \/ /\ Has(seg, K_visual_analysis)
       /\ Has(seg.f[K_visual_analysis], K_main_subjects)
       /\ seg.f[K_visual_analysis].f[K_main_subjects].t = "arr"
       /\ \E j \in DOMAIN seg.f[K_visual_analysis].f[K_main_subjects].items :
             seg.f[K_visual_analysis].f[K_main_subjects].items[j].t = "str"

\* the segments supplied in the payload (none when the key is absent)
SuppliedSegments ==
    IF Has(payload, K_timeline_segments) /\ payload.f[K_timeline_segments].t = "arr"
    THEN payload.f[K_timeline_segments].items
    ELSE <<>>

\* C6: a coercer call ends either with a complete AnalysisResult, in which
\* every supplied segment and block is present in validated form, or with a
\* failure that carries no result; one invalid segment or nested block
\* fails the whole call, and the valid segments are not returned.
C6_AllOrNothing ==
    pc = "done" =>
        /\ result.status \in {"ok", "ValidationError", "TypeError", "OverflowError"}
        /\ (result.status = "ok") <=> ("value" \in DOMAIN result)
        /\ (\E i \in DOMAIN SuppliedSegments :
               \/ PlainlyInvalidSegment(SuppliedSegments[i])
               \/ ~ValidateModel("TimelineSegment", SuppliedSegments[i]).ok)
              => result.status # "ok"
        /\ (\E i \in DOMAIN AnalysisResult :
               /\ Has(payload, AnalysisResult[i].name)
               /\ ~ValidateType(AnalysisResult[i].type, payload.f[AnalysisResult[i].name]).ok)
              => result.status # "ok"
        /\ result.status = "ok" =>
              /\ payload.t = "obj"
              /\ result.value.t = "obj"
              /\ DOMAIN result.value.f = FieldNames("AnalysisResult")
              /\ \A i \in DOMAIN AnalysisResult :
                    Has(payload, AnalysisResult[i].name) =>
                        result.value.f[AnalysisResult[i].name] =
                            ValidateType(AnalysisResult[i].type,
                                         payload.f[AnalysisResult[i].name]).val
              /\ Len(result.value.f[K_timeline_segments].items) = Len(SuppliedSegments)
              /\ \A i \in DOMAIN SuppliedSegments :
                    /\ DOMAIN result.value.f[K_timeline_segments].items[i].f
                          = FieldNames("TimelineSegment")
                    /\ result.value.f[K_timeline_segments].items[i] =
                          ValidateModel("TimelineSegment", SuppliedSegments[i]).val

C6_Witness ==
    /\ pc = "done"
    /\ call = "model_validate"
    /\ payload = SegmentsPayload(<<FullSegment, JStr(<<"x">>)>>)
    /\ ValidateModel("TimelineSegment", FullSegment).ok
    /\ result = [status |-> "ValidationError"]

(***************************************************************************)
(* Properties of the time representation.                                  *)
(***************************************************************************)
\* k in 0..99 as two decimal digits
TwoDigits(k) == <<Digits[(k \div 10) + 1], Digits[(k % 10) + 1]>>

\* "MM:SS" below one hour, "HH:MM:SS" from one hour on
ClockString(s) ==
    IF s < 3600
    THEN TwoDigits(s \div 60) \o <<":">> \o TwoDigits(s % 60)
    ELSE TwoDigits(s \div 3600) \o <<":">> \o TwoDigits((s % 3600) \div 60)
           \o <<":">> \o TwoDigits(s % 60)

\* a non-negative number of seconds, and its whole seconds
IsSeconds(v) == (v.t = "int" /\ v.n >= 0) \/ (v.t = "float" /\ ~v.neg)
WholeSeconds(v) == IF v.t = "int" THEN v.n ELSE v.mant \div Pow10(v.scale)

\* conv: seconds become their clock string, a string stays as it is
Conv(v) == IF v.t = "str" THEN v ELSE JStr(ClockString(WholeSeconds(v)))

\* the i-th segment of the report
ResultSegment(i) == result.value.f[K_timeline_segments].items[i]

\* seg has no nested time_range
NoNestedRange(seg) == K_time_range \notin DOMAIN seg.f \/ seg.f[K_time_range] = JNull

\* seg carries top-level start and end, each seconds or a string, and no
\* nested time_range
TopLevelTimesOnly(seg) ==
    /\ seg.t = "obj"
    /\ Has(seg, K_start) /\ (seg.f[K_start].t = "str" \/ IsSeconds(seg.f[K_start]))
    /\ Has(seg, K_end) /\ (seg.f[K_end].t = "str" \/ IsSeconds(seg.f[K_end]))
    /\ NoNestedRange(seg)

\* seg holds nothing but time information
OnlyTimeKeys(seg) == seg.t = "obj" /\ DOMAIN seg.f \subseteq {K_start, K_end, K_time_range}

\* C7: a segment supplied with top-level start and end and no nested
\* time_range comes out with time_range = {start: conv(start), end:
\* conv(end)}, where conv turns seconds into MM:SS / HH:MM:SS and leaves a
\* string unchanged; such a segment on its own validates.
C7_TimeRangeSynthesized ==
    pc = "done" =>
        /\ \A i \in DOMAIN SuppliedSegments :
              (TopLevelTimesOnly(SuppliedSegments[i]) /\ result.status = "ok") =>
                  ResultSegment(i).f[K_time_range] =
                      JObj((K_start :> Conv(SuppliedSegments[i].f[K_start]))
                             @@ (K_end :> Conv(SuppliedSegments[i].f[K_end])))
        /\ (/\ Len(SuppliedSegments) = 1
            /\ TopLevelTimesOnly(SuppliedSegments[1])
            /\ OnlyTimeKeys(SuppliedSegments[1]))
              => result.status = "ok"

C7_Witness ==
    /\ pc = "done"
    /\ payload = SegmentsPayload(<<JObj((K_start :> JInt(125)) @@ (K_end :> JInt(140)))>>)
    /\ result.status = "ok"
    /\ ResultSegment(1).f[K_time_range] =
          JObj((K_start :> JStr(<<"0", "2", ":", "0", "5">>))
                 @@ (K_end :> JStr(<<"0", "2", ":", "2", "0">>)))

\* C8: for s >= 0 whole seconds the conversion gives the zero-padded
\* "MM:SS" with MM = s div 60, SS = s mod 60 when s < 3600, and "HH:MM:SS"
\* with HH = s div 3600, MM = (s mod 3600) div 60, SS = s mod 60 when
\* s >= 3600: the hour component is there exactly when s >= 3600.
C8_SecondsToClock ==
    (pc = "done" /\ call = "_seconds_to_time_string") =>
        /\ timeStr = ClockString(seconds)
        /\ (Len(timeStr) = 8) <=> (seconds >= 3600)
        /\ (Len(timeStr) = 5) <=> (seconds < 3600)

C8_Witness ==
    /\ pc = "done"
    /\ call = "_seconds_to_time_string"
    /\ seconds = 3725
    /\ timeStr = <<"0", "1", ":", "0", "2", ":", "0", "5">>

\* seg is nothing but a nested time_range whose start and end are seconds
NestedSecondsOnly(seg) ==
    /\ seg.t = "obj"
    /\ DOMAIN seg.f = {K_time_range}
    /\ seg.f[K_time_range].t = "obj"
    /\ DOMAIN seg.f[K_time_range].f = {K_start, K_end}
    /\ IsSeconds(seg.f[K_time_range].f[K_start])
    /\ IsSeconds(seg.f[K_time_range].f[K_end])

\* C9: a nested time_range whose start and end are numbers of seconds is
\* accepted and stored with both converted to MM:SS / HH:MM:SS strings.
C9_NestedSecondsConverted ==
    (pc = "done" /\ Len(SuppliedSegments) = 1 /\ NestedSecondsOnly(SuppliedSegments[1])) =>
        /\ result.status = "ok"
        /\ ResultSegment(1).f[K_time_range] =
              JObj((K_start :> Conv(SuppliedSegments[1].f[K_time_range].f[K_start]))
                     @@ (K_end :> Conv(SuppliedSegments[1].f[K_time_range].f[K_end])))

\* key k of seg is a string
StringAt(seg, k) == Has(seg, k) /\ seg.f[k].t = "str"

\* seg has a nested time_range with a string for start and for end
NestedStrings(seg) ==
    /\ Has(seg, K_time_range)
    /\ seg.f[K_time_range].t = "obj"
    /\ StringAt(seg.f[K_time_range], K_start)
    /\ StringAt(seg.f[K_time_range], K_end)

\* every time value seg supplies is a string, and it supplies one
OnlyStringTimes(seg) ==
    /\ OnlyTimeKeys(seg)
    /\ \A k \in {K_start, K_end} : Has(seg, k) => seg.f[k].t = "str"
    /\ Has(seg, K_time_range) => NestedStrings(seg)
    /\ DOMAIN seg.f # {}

\* C10: a string supplied as a time value (top-level start / end, nested
\* time_range start / end) is stored exactly as supplied, well-formed or
\* not, and validation does not fail because of it.
C10_TimeStringsUnchanged ==
    pc = "done" =>
        /\ (Len(SuppliedSegments) = 1 /\ OnlyStringTimes(SuppliedSegments[1]))
              => result.status = "ok"
        /\ \A i \in DOMAIN SuppliedSegments :
              SuppliedSegments[i].t = "obj" =>
                 /\ \A k \in {K_start, K_end} :
                       StringAt(SuppliedSegments[i], k) =>
                          /\ ValidateField("TimelineSegment", F(k, OptStr), SuppliedSegments[i].f)
                                = Ok(SuppliedSegments[i].f[k])
                          /\ result.status = "ok"
                                => ResultSegment(i).f[k] = SuppliedSegments[i].f[k]
                 /\ NestedStrings(SuppliedSegments[i]) =>
                       /\ ValidateModel("TimeRange", SuppliedSegments[i].f[K_time_range]).ok
                       /\ result.status = "ok" =>
                             \A k \in {K_start, K_end} :
                                 ResultSegment(i).f[K_time_range].f[k]
                                    = SuppliedSegments[i].f[K_time_range].f[k]

C10_Witness ==
    /\ pc = "done"
    /\ payload = SegmentsPayload(<<JObj((K_start :> JStr(Time_Malformed)) @@ (K_end :> JStr(<<>>))
                                         @@ (K_time_range :>
                                               JObj((K_start :> JStr(Time_0205))
                                                      @@ (K_end :> JStr(Time_Malformed)))))>>)
    /\ result.status = "ok"
    /\ ResultSegment(1).f[K_start] = JStr(<<"a", "b", "c">>)
    /\ ResultSegment(1).f[K_time_range].f[K_end] = JStr(<<"a", "b", "c">>)

(***************************************************************************)
(* Properties of the field repairs.                                        *)
(***************************************************************************)
\* the decimal numeral of an integer between -99 and 99
Numeral(n) == IF n < 10 THEN <<Digits[n + 1]>> ELSE TwoDigits(n)
SignedNumeral(n) == IF n < 0 THEN <<"-">> \o Numeral(-n) ELSE Numeral(n)

\* segment i supplies key k
Supplies(i, k) == SuppliedSegments[i].t = "obj" /\ Has(SuppliedSegments[i], k)

\* the value segment i supplies for key k
Supplied(i, k) == SuppliedSegments[i].f[k]

\* the payload is one segment that holds key k and nothing else
LoneField(k) ==
    /\ payload.t = "obj"
    /\ DOMAIN payload.f = {K_timeline_segments}
    /\ Len(SuppliedSegments) = 1
    /\ SuppliedSegments[1].t = "obj"
    /\ DOMAIN SuppliedSegments[1].f = {k}

\* C11: a segment_id supplied as a number n comes out as the string
\* representation of n (3 gives "3"); a null or absent segment_id stays
\* null; a segment that holds nothing but such an identifier validates.
C11_SegmentIdStringified ==
    pc = "done" =>
        /\ \A i \in DOMAIN SuppliedSegments :
              (SuppliedSegments[i].t = "obj" /\ result.status = "ok") =>
                 /\ (Supplies(i, K_segment_id) /\ Supplied(i, K_segment_id).t = "int") =>
                       ResultSegment(i).f[K_segment_id]
                          = JStr(SignedNumeral(Supplied(i, K_segment_id).n))
                 /\ (Supplies(i, K_segment_id)
                       /\ Supplied(i, K_segment_id) = JFloat(FALSE, 25, 1)) =>
                       ResultSegment(i).f[K_segment_id] = JStr(<<"2", ".", "5">>)
                 /\ (~Supplies(i, K_segment_id) \/ Supplied(i, K_segment_id) = JNull) =>
                       ResultSegment(i).f[K_segment_id] = JNull
        /\ (LoneField(K_segment_id)
              /\ Supplied(1, K_segment_id).t \in {"int", "float", "null"})
              => result.status = "ok"

C11_Witness ==
    /\ pc = "done"
    /\ payload = SegmentsPayload(<<JObj(K_segment_id :> JInt(3))>>)
    /\ result.status = "ok"
    /\ ResultSegment(1).f[K_segment_id] = JStr(<<"3">>)

\* v is a list of strings
IsStringList(v) == v.t = "arr" /\ \A j \in DOMAIN v.items : v.items[j].t = "str"

\* C12: a text_extraction_ocr supplied as a non-empty bare list L of
\* strings comes out as the object {visible_text: L}, items in the same
\* order; supplied as the empty list it comes out null, not as an empty
\* object; a segment that holds nothing but such a list validates.
C12_OcrListWrapped ==
    pc = "done" =>
        /\ \A i \in DOMAIN SuppliedSegments :
              (/\ Supplies(i, K_text_extraction_ocr)
               /\ IsStringList(Supplied(i, K_text_extraction_ocr))
               /\ result.status = "ok") =>
                  IF Supplied(i, K_text_extraction_ocr).items = <<>>
                  THEN ResultSegment(i).f[K_text_extraction_ocr] = JNull
                  ELSE /\ ResultSegment(i).f[K_text_extraction_ocr].t = "obj"
                       /\ ResultSegment(i).f[K_text_extraction_ocr].f[K_visible_text]
                             = Supplied(i, K_text_extraction_ocr)
                       /\ ResultSegment(i).f[K_text_extraction_ocr].f[K_programming_language]
                             = JNull
        /\ (LoneField(K_text_extraction_ocr)
              /\ IsStringList(Supplied(1, K_text_extraction_ocr)))
              => result.status = "ok"

C12_Witness ==
    /\ pc = "done"
    /\ payload = SegmentsPayload(<<JObj(K_text_extraction_ocr :>
                                          JArr(<<JStr(Text_LOGIN), JStr(Text_PASSWORD)>>))>>)
    /\ result.status = "ok"
    /\ ResultSegment(1).f[K_text_extraction_ocr].f[K_visible_text]
          = JArr(<<JStr(<<"L", "O", "G", "I", "N">>),
                   JStr(<<"P", "A", "S", "S", "W", "O", "R", "D">>)>>)

RECURSIVE CommaJoined(_)
\* the strings of a list joined with ", ", built from the right
CommaJoined(strs) ==
    IF strs = <<>> THEN <<>>
    ELSE IF Len(strs) = 1 THEN strs[1].s
    ELSE CommaJoined(SubSeq(strs, 1, Len(strs) - 1)) \o <<",", " ">> \o strs[Len(strs)].s

\* the payload supplies global_virality.target_audience
SuppliesAudience ==
    /\ Has(payload, K_global_virality)
    /\ Has(payload.f[K_global_virality], K_target_audience)

SuppliedAudience == payload.f[K_global_virality].f[K_target_audience]

\* C13: a target_audience supplied as a list of strings comes out as the
\* one string that joins the items in order with ", "; supplied as a single
\* string it is kept unchanged; neither fails validation.
C13_AudienceJoined ==
    (pc = "done" /\ SuppliesAudience) =>
        /\ (result.status = "ok" /\ IsStringList(SuppliedAudience)) =>
              result.value.f[K_global_virality].f[K_target_audience]
                 = JStr(CommaJoined(SuppliedAudience.items))
        /\ (result.status = "ok" /\ SuppliedAudience.t = "str") =>
              result.value.f[K_global_virality].f[K_target_audience] = SuppliedAudience
        /\ (payload \in AudiencePayloads
              /\ (IsStringList(SuppliedAudience) \/ SuppliedAudience.t = "str"))
              => result.status = "ok"

C13_Witness ==
    /\ pc = "done"
    /\ payload = JObj(K_global_virality :>
                        JObj(K_target_audience :>
                               JArr(<<JStr(Text_GenZ), JStr(Text_TechEnthusiasts)>>)))
    /\ result.status = "ok"
    /\ result.value.f[K_global_virality].f[K_target_audience]
          = JStr(<<"G", "e", "n", " ", "Z", ",", " ", "T", "e", "c", "h", " ",
                   "E", "n", "t", "h", "u", "s", "i", "a", "s", "t", "s">>)

(***************************************************************************)
(* Properties of the round trip.                                           *)
(***************************************************************************)
RECURSIVE HoldsNonFinite(_)
\* a NaN or an infinity occurs somewhere in v
HoldsNonFinite(v) ==
    CASE v.t \in {"nan", "inf"} -> TRUE
      [] v.t = "arr" -> \E i \in DOMAIN v.items : HoldsNonFinite(v.items[i])
      [] v.t = "obj" -> \E k \in DOMAIN v.f : HoldsNonFinite(v.f[k])
      [] OTHER -> FALSE

\* the step that writes the report out and coerces it again
IsRoundTrip == pc = "done" /\ pc' = "again"

\* C14: for every input the coercer accepts, writing the report out as
\* JSON and coercing it again succeeds and gives a report equal to the
\* first one.
C14_RoundTripIdempotent == [][IsRoundTrip => result' = result]_vars

\* C14, restated: the same for every accepted input whose report holds no
\* NaN and no infinite number; the text written out is valid JSON, and the
\* report read back is already in canonical shape (coercing it changes
\* nothing).
C14_RoundTripIdempotentOnJson ==
    [][(IsRoundTrip /\ ~HoldsNonFinite(result.value)) =>
          /\ IsValidJSON(text')
          /\ result' = result
          /\ payload' = result.value]_vars

C14_Witness ==
    /\ pc = "again"
    /\ call = "revalidate"
    /\ result.status = "ok"
    /\ payload = result.value
    /\ Len(result.value.f[K_timeline_segments].items) = 1
    /\ ResultSegment(1).f[K_segment_id] = JStr(<<"3">>)
    /\ ResultSegment(1).f[K_start] = JStr(<<"0", "1", ":", "0", "5">>)
    /\ ResultSegment(1).f[K_text_extraction_ocr].t = "obj"
    /\ ResultSegment(1).f[K_text_extraction_ocr].f[K_visible_text]
          = JArr(<<JStr(Text_LOGIN)>>)

(***************************************************************************)
(* Extractor and coercer together on a fenced report.                      *)
(***************************************************************************)
\* the replies that carry a list of segments, each inside an opening fence
\* line and a closing fence, with the segments they must be repaired to
\* (identifier, start, end), written out by hand
SegmentDocs ==
    { <<Doc_OneSegment, << <<"1", <<"0", "1", ":", "0", "5">>, <<"0", "1", ":", "1", "0">> >> >> >>,
      <<Doc_TwoSegments, << <<"2", <<"0", "0", ":", "0", "5">>, <<"0", "0", ":", "0", "9">> >>,
                            <<"a", <<"0", "0", ":", "1", "0">>, <<"0", "1", ":", "1", "5">> >> >> >> }

FencedSegmentCases ==
    { <<Wrap(ws1, open, d[1], close, ws2), d[2]>> :
        ws1 \in OuterWs, open \in OpeningFences, d \in SegmentDocs,
        close \in ClosingFences, ws2 \in OuterWs }

\* segment i of the result is the repaired form e = (identifier, start, end)
RepairedAs(i, e) ==
    /\ ResultSegment(i).f[K_segment_id] = JStr(<<e[1]>>)
    /\ ResultSegment(i).f[K_start] = JStr(e[2])
    /\ ResultSegment(i).f[K_end] = JStr(e[3])
    /\ ResultSegment(i).f[K_time_range].t = "obj"
    /\ ResultSegment(i).f[K_time_range].f[K_start] = JStr(e[2])
    /\ ResultSegment(i).f[K_time_range].f[K_end] = JStr(e[3])

\* the reply of the claim: the one-segment report inside a json fence
Text_FencedOneSegment ==
    Wrap(<<>>, Fence \o <<"j", "s", "o", "n", "\n">>, Doc_OneSegment, <<"\n">> \o Fence, <<>>)

\* C15: the extractor followed by the coercer, on a fenced JSON object,
\* yields a report with as many segments as the reply lists, in the same
\* order, each one repaired; the json-fenced one-segment reply gives exactly
\* one segment with segment_id "1" and time_range 01:05 to 01:10.
C15_FencedReportRepaired ==
    /\ (pc = "done" /\ call \in ValidatingCalls) =>
          \A c \in FencedSegmentCases :
              c[1] = text =>
                  /\ result.status = "ok"
                  /\ Len(result.value.f[K_timeline_segments].items) = Len(c[2])
                  /\ \A i \in 1..Len(c[2]) : RepairedAs(i, c[2][i])
    /\ (pc = "done" /\ call \in ValidatingCalls /\ text = Text_FencedOneSegment) =>
          /\ result.status = "ok"
          /\ Len(result.value.f[K_timeline_segments].items) = 1
          /\ ResultSegment(1).f[K_segment_id] = JStr(<<"1">>)
          /\ ResultSegment(1).f[K_time_range].f
                = (K_start :> JStr(<<"0", "1", ":", "0", "5">>))
                    @@ (K_end :> JStr(<<"0", "1", ":", "1", "0">>))

C15_Witness ==
    /\ pc = "done"
    /\ call = "analyze_video_structure"
    /\ text = Text_FencedOneSegment
    /\ result.status = "ok"
    /\ Len(result.value.f[K_timeline_segments].items) = 1
    /\ ResultSegment(1).f[K_segment_id] = JStr(<<"1">>)

(***************************************************************************)
(* Order of the validation steps within a segment.                         *)
(***************************************************************************)
\* v is null or a string
NullOrStr(v) == v.t \in {"null", "str"}

\* every repaired field of the stored segment seg has its declared type
WellTyped(seg) ==
    /\ NullOrStr(seg.f[K_segment_id])
    /\ NullOrStr(seg.f[K_start])
    /\ NullOrStr(seg.f[K_end])
    /\ seg.f[K_text_extraction_ocr].t \in {"null", "obj"}
    /\ seg.f[K_text_extraction_ocr].t = "obj" =>
          IsStringList(seg.f[K_text_extraction_ocr].f[K_visible_text])
    /\ seg.f[K_time_range].t \in {"null", "obj"}
    /\ seg.f[K_time_range].t = "obj" =>
          /\ seg.f[K_time_range].f[K_start].t = "str"
          /\ seg.f[K_time_range].f[K_end].t = "str"

\* C16: within one segment the field repairs run before the type check of
\* the repaired field (a numeric identifier, numeric seconds and a bare list
\* of strings are accepted, and what a repair returns is still checked), and
\* time_range is synthesized from the converted start and end, so it never
\* holds a number.
C16_RepairsBeforeTypeCheck ==
    pc = "done" =>
        /\ result.status = "ok" =>
              \A i \in DOMAIN result.value.f[K_timeline_segments].items :
                  WellTyped(ResultSegment(i))
        /\ (LoneField(K_segment_id)
              /\ Supplied(1, K_segment_id).t \in {"int", "float", "bool"}) =>
              result.status = "ok" /\ ResultSegment(1).f[K_segment_id].t = "str"
        /\ (LoneField(K_start) /\ IsSeconds(Supplied(1, K_start))) =>
              result.status = "ok" /\ ResultSegment(1).f[K_start].t = "str"
        /\ (LoneField(K_text_extraction_ocr)
              /\ IsStringList(Supplied(1, K_text_extraction_ocr))
              /\ Supplied(1, K_text_extraction_ocr).items # <<>>) =>
              result.status = "ok" /\ ResultSegment(1).f[K_text_extraction_ocr].t = "obj"
        /\ (LoneField(K_text_extraction_ocr)
              /\ Supplied(1, K_text_extraction_ocr) = JArr(<<JInt(1)>>)) =>
              result.status = "ValidationError"
        /\ \A i \in DOMAIN SuppliedSegments :
              (/\ result.status = "ok"
               /\ TopLevelTimesOnly(SuppliedSegments[i])
               /\ IsSeconds(Supplied(i, K_start))
               /\ IsSeconds(Supplied(i, K_end))) =>
                  /\ ResultSegment(i).f[K_time_range].t = "obj"
                  /\ ResultSegment(i).f[K_time_range].f[K_start] = ResultSegment(i).f[K_start]
                  /\ ResultSegment(i).f[K_time_range].f[K_end] = ResultSegment(i).f[K_end]
                  /\ ResultSegment(i).f[K_start].t = "str"
                  /\ ResultSegment(i).f[K_end].t = "str"

C16_Witness ==
    /\ pc = "done"
    /\ payload = SegmentsPayload(<<MkObj(<< <<K_segment_id, JInt(1)>>, <<K_start, JInt(65)>>,
                                            <<K_end, JInt(70)>> >>)>>)
    /\ result.status = "ok"
    /\ ResultSegment(1).f[K_segment_id] = JStr(<<"1">>)
    /\ ResultSegment(1).f[K_time_range]
          = JObj((K_start :> JStr(<<"0", "1", ":", "0", "5">>))
                   @@ (K_end :> JStr(<<"0", "1", ":", "1", "0">>)))

(***************************************************************************)
(* Which backticks count as a fence.                                       *)
(***************************************************************************)
\* the string value of Doc_FenceInString: it ends in three backticks
Value_FenceInString == JStr(<<"x", Backtick, Backtick, Backtick>>)

\* C17: only a fence at the very start of the trimmed reply, and then one at
\* the very end of what follows its line, is removed. A reply with a closing
\* fence but no opening one is tried as it is (and is no JSON); a reply with
\* an opening fence line and no closing fence has the rest parsed; three
\* backticks inside a JSON string stay part of the string.
C17_OnlyOuterFencesCount ==
    pc = "done" =>
        \A ws1 \in OuterWs, ws2 \in OuterWs :
            /\ \A body \in Docs, close \in ClosingFences :
                  text = Wrap(ws1, NoFence, body, close, ws2) =>
                      payload = ErrorEnvelope(body \o close)
            /\ \A body \in Docs, open \in OpeningFences :
                  text = Wrap(ws1, open, body, NoFence, ws2) => payload = DocValue(body)
            /\ \A w \in {<<NoFence, NoFence>>} \cup (OpeningFences \X (ClosingFences \cup {NoFence})) :
                  text = Wrap(ws1, w[1], Doc_FenceInString, w[2], ws2) =>
                      payload = Value_FenceInString

C17_Witness ==
    /\ pc = "done"
    /\ call = "analyze_video_with_openrouter"
    /\ text = Wrap(<<>>, Fence \o <<"\n">>, Doc_FenceInString, NoFence, <<" ">>)
    /\ payload = Value_FenceInString

(***************************************************************************)
(* When a time_range is synthesized.                                       *)
(***************************************************************************)
\* segment i supplies no value, or null, for key k
Without(i, k) == ~Supplies(i, k) \/ Supplied(i, k) = JNull

\* C18: time_range is synthesized only when no nested time_range is
\* supplied and both start and end are non-null. A supplied nested
\* time_range is stored as supplied whatever start and end say; without
\* one, a segment lacking start or end has time_range null (and a segment
\* holding only a start, or only an end, validates), and a segment with
\* both has time_range.start = start and time_range.end = end.
C18_SynthesisOnlyWhenNeeded ==
    pc = "done" =>
        /\ \A i \in DOMAIN SuppliedSegments :
              (SuppliedSegments[i].t = "obj" /\ result.status = "ok") =>
                 /\ ~Without(i, K_time_range) =>
                       ResultSegment(i).f[K_time_range] = Supplied(i, K_time_range)
                 /\ (Without(i, K_time_range) /\ (Without(i, K_start) \/ Without(i, K_end))) =>
                       ResultSegment(i).f[K_time_range] = JNull
                 /\ (Without(i, K_time_range) /\ ~Without(i, K_start) /\ ~Without(i, K_end)) =>
                       /\ ResultSegment(i).f[K_time_range].t = "obj"
                       /\ ResultSegment(i).f[K_time_range].f
                             = (K_start :> ResultSegment(i).f[K_start])
                                 @@ (K_end :> ResultSegment(i).f[K_end])
                       /\ ResultSegment(i).f[K_start] # JNull
                       /\ ResultSegment(i).f[K_end] # JNull
        /\ \A k \in {K_start, K_end} :
              (LoneField(k) /\ (Supplied(1, k).t = "str" \/ IsSeconds(Supplied(1, k)))) =>
                  /\ result.status = "ok"
                  /\ ResultSegment(1).f[K_time_range] = JNull
                  /\ ResultSegment(1).f[k] = Conv(Supplied(1, k))

C18_Witness ==
    /\ pc = "done"
    /\ payload = SegmentsPayload(<<MkObj(<< <<K_start, JInt(0)>>, <<K_end, JInt(65)>>,
                      <<K_time_range, MkObj(<< <<K_start, JStr(Time_0205)>>,
                                               <<K_end, JStr(Time_Malformed)>> >>)>> >>)>>)
    /\ result.status = "ok"
    /\ ResultSegment(1).f[K_start] = JStr(<<"0", "0", ":", "0", "0">>)
    /\ ResultSegment(1).f[K_time_range]
          = JObj((K_start :> JStr(Time_0205)) @@ (K_end :> JStr(Time_Malformed)))

(***************************************************************************)
(* The two extractors side by side.                                        *)
(***************************************************************************)
\* C19: _parse_json_safe and parse_json_from_model_text return equal values
\* for every reply: the same parsed value, or an error envelope with the
\* same error marker and the same raw text. Whichever entry point ran, the
\* value it extracted is the value either extractor gives.
C19_ExtractorsAgree ==
    pc = "done" =>
        /\ payload = _parse_json_safe(text)
        /\ payload = parse_json_from_model_text(text)
        /\ IsErrorEnvelope(payload) =>
              /\ payload.f[K_error] = JStr(InvalidJsonOutput)
              /\ payload.f[K_raw] = JStr(StripFences(text))
              /\ payload.f[K_raw] = JStr(Cleaned(text))

C19_Witness ==
    /\ pc = "done"
    /\ call = "reverse_engineer_with_openrouter"
    /\ text = Wrap(<<" ">>, Fence \o <<"j", "s", "o", "n", "\n">>, Text_NotJson,
                   <<"\n">> \o Fence, <<>>)
    /\ payload = ErrorEnvelope(Text_NotJson \o <<"\n">>)
    /\ payload = _parse_json_safe(text)

(***************************************************************************)
(* The text taken from a provider response.                                *)
(***************************************************************************)
\* choices[0].message.content where the body has that shape, else null
ContentOf(body) ==
    IF /\ Has(body, K_choices)
       /\ body.f[K_choices].t = "arr"
       /\ body.f[K_choices].items # <<>>
       /\ Has(body.f[K_choices].items[1], K_message)
       /\ Has(body.f[K_choices].items[1].f[K_message], K_content)
    THEN body.f[K_choices].items[1].f[K_message].f[K_content]
    ELSE JNull

\* part is of type "text" and holds a non-empty text
HasText(part) ==
    /\ Has(part, K_type) /\ part.f[K_type] = JStr(K_text)
    /\ Has(part, K_text) /\ part.f[K_text].t = "str" /\ part.f[K_text].s # <<>>

\* the text the body is said to yield
SaidText(content) ==
    CASE content.t = "str" -> content
      [] content.t = "arr" ->
            IF \E i \in DOMAIN content.items : HasText(content.items[i])
            THEN content.items[CHOOSE i \in DOMAIN content.items :
                                  /\ HasText(content.items[i])
                                  /\ \A j \in 1..(i - 1) : ~HasText(content.items[j])].f[K_text]
            ELSE JStr(<<>>)
      [] OTHER -> JStr(<<>>)

\* C20: whatever the shape of the response body, the text extraction of
\* call_openrouter_video returns without raising, and the text it returns is
\* a string: the content when that is a string, the text of the first part
\* of type "text" with a non-empty text when it is a list, "" otherwise.
C20_TextAlwaysString ==
    (pc = "done" /\ call = "call_openrouter_video") =>
        /\ result.status = "ok"
        /\ result.value.f[K_text].t = "str"
        /\ result.value.f[K_text] = SaidText(ContentOf(payload))

\* every part of a list content is an object whose text, if any, is a string
PartsAsDocumented(content) ==
    content.t = "arr" =>
        \A i \in DOMAIN content.items :
            /\ content.items[i].t = "obj"
            /\ Has(content.items[i], K_text) => content.items[i].f[K_text].t = "str"

\* C20, on the bodies whose parts have the documented form: the text is
\* returned as said, and the body is returned along with it
C20_TextOfDocumentedParts ==
    (pc = "done" /\ call = "call_openrouter_video" /\ PartsAsDocumented(ContentOf(payload))) =>
        /\ result.status = "ok"
        /\ result.value.f[K_raw] = payload
        /\ result.value.f[K_text] = SaidText(ContentOf(payload))

(***************************************************************************)
(* Keys outside the schema.                                                *)
(***************************************************************************)
RECURSIVE Mentions(_, _)
\* key k occurs in some object of v
Mentions(v, k) ==
    CASE v.t = "obj" -> k \in DOMAIN v.f \/ \E j \in DOMAIN v.f : Mentions(v.f[j], k)
      [] v.t = "arr" -> \E i \in DOMAIN v.items : Mentions(v.items[i], k)
      [] OTHER -> FALSE

\* C21: a key that the schema does not declare is ignored: a payload with
\* such a key added, at the top level or inside any nested record, has the
\* outcome of the payload without it, success or failure, and on success an
\* equal report, which holds the key nowhere.
C21_UnknownKeysIgnored ==
    pc = "done" =>
        \A c \in ExtraKeyCases :
            c[1] = payload =>
                /\ result = model_validate(c[2])
                /\ result.status = "ok" =>
                      \A k \in UnknownKeys : ~Mentions(result.value, k)

C21_Witness ==
    /\ pc = "done"
    /\ payload = SegmentsPayload(<<MkObj(<< <<K_segment_id, JInt(1)>>, <<K_start, JInt(65)>>,
                      <<K_end, JInt(70)>>, <<K_x_extra, JObj(K_start :> JInt(5))>> >>)>>)
    /\ result.status = "ok"
    /\ K_x_extra \notin DOMAIN ResultSegment(1).f
    /\ ResultSegment(1).f[K_segment_id] = JStr(<<"1">>)
    /\ ResultSegment(1).f[K_start] = JStr(<<"0", "1", ":", "0", "5">>)

====
